---- MODULE Spec2Model ----
(***************************************************************************)
(* NaTGenPD heat-rate fit filtering (src/NaTGenPD/filter.py).              *)
(*                                                                         *)
(* A fit store maps each group type to a fit table: one row per unit (or   *)
(* per unit and operating mode), with the polynomial coefficients a4..a0,  *)
(* the load domain, the sampled curve and the unit's meta data.            *)
(* FitFilter.filter walks the groups of the store and invalidates the fits *)
(* whose minimum heat rate is an outlier of the group's population.        *)
(*                                                                         *)
(* Numbers.  A missing cell (NaN / None) is the empty tuple, a present     *)
(* cell v is <<v>>.  Heat rates are exact rationals: the minimum of a      *)
(* curve over its linspace samples is kept as a numerator over the common  *)
(* denominator Den = (hr_points - 1)^4, and the comparisons against        *)
(* mean -/+ k*stdev are done on integers (the population standard          *)
(* deviation of numpy, ddof = 0), so no rounding is modelled.              *)
(***************************************************************************)
EXTENDS Integers, Sequences, FiniteSets, TLC

\* ------------------------------------------------------------------ bounds
\* Most rows the fit store holds, all groups together.
MaxRows == 4
\* Samples _get_hr_min takes between load_min and load_max (the code's
\* default is 100; the model samples the curve at fewer points).
hr_points == 3
\* The min_units handed to FitFilter.filter besides 0 (the code's default
\* is 100; the model's populations are smaller).
MinUnits == 3

\* --------------------------------------------------------------- constants
\* The physical floor 4.5 of _get_hr_min, as the fraction FloorNum / FloorDen.
FloorNum == 9
FloorDen == 2
\* Default cut_off of _filer_CCs.
DefaultCutOff == 9
\* Default stdev_multiplier of _min_hr_filter.
DefaultMultiplier == 2

None == <<>>
isnull(c) == c = None

\* ------------------------------------------------------------ fit tables
\* Columns of a fit row: PolyFit.extract_fit (points = 5) plus meta data.
CoefCols == <<"a4", "a3", "a2", "a1", "a0">>
LoadCols == <<"load_min", "load_2", "load_3", "load_4", "load_max">>
HeatRateCols == <<"heat_rate(load_min)", "heat_rate(load_2)", "heat_rate(load_3)",
                  "heat_rate(load_4)", "heat_rate(load_max)">>
OtherCols == {"total_load", "min_gen_perc", "group_type"}

Range(s) == {s[i] : i \in DOMAIN s}

Columns == Range(CoefCols) \cup Range(LoadCols) \cup Range(HeatRateCols)
             \cup OtherCols \cup {"unit_id"}

\* str.startswith on the column names of a fit table.
startswith(c, prefix) ==
    CASE prefix = "a" -> c \in Range(CoefCols)
      [] prefix = "heat_rate" -> c \in Range(HeatRateCols)
      [] prefix = "load" -> c \in Range(LoadCols)
      [] OTHER -> FALSE

\* The group types of the store, in the order the store lists them.
group_types == <<"CC (NG)", "CT (NG)">>
GroupTypes == Range(group_types)

\* 'CC' in g_type
ContainsCC(g_type) == g_type \in {"CC (NG)"}

\* -------------------------------------------------------------- arithmetic
RECURSIVE Pow(_, _)
Pow(b, e) == IF e = 0 THEN 1 ELSE b * Pow(b, e - 1)

RECURSIVE SumSeq(_)
SumSeq(s) == IF s = <<>> THEN 0 ELSE Head(s) + SumSeq(Tail(s))

MinOf(S) == CHOOSE m \in S : \A x \in S : m <= x

\* Common denominator of every sampled heat rate.
Den == Pow(hr_points - 1, 4)

\* np.poly1d(fit_params)(xn / d), as a numerator over d^4 (Horner's scheme).
poly1d(p, xn, d) ==
    (((p[1] * xn + p[2] * d) * xn + p[3] * d * d) * xn + p[4] * d * d * d) * xn
      + p[5] * d * d * d * d

\* ------------------------------------------------------------ _get_hr_min
\* Variant of _get_hr_min that trusts a minimum below the floor.
_get_hr_min_nofloor(unit) ==
    IF \E i \in DOMAIN CoefCols : isnull(unit[CoefCols[i]])
    THEN None
    ELSE LET fit_params == [i \in DOMAIN CoefCols |-> unit[CoefCols[i]][1]]
             d == hr_points - 1
             load_min == unit["load_min"][1]
             load_max == unit["load_max"][1]
             x(i) == load_min * d + i * (load_max - load_min)
         IN  <<MinOf({poly1d(fit_params, x(i), d) : i \in 0..d})>>

\* Minimum heat rate of a fit row: None, or <<numerator over Den>>.
_get_hr_min(unit) ==
    IF \E i \in DOMAIN CoefCols : isnull(unit[CoefCols[i]])
    THEN None
    ELSE LET fit_params == [i \in DOMAIN CoefCols |-> unit[CoefCols[i]][1]]
             d == hr_points - 1
             load_min == unit["load_min"][1]
             load_max == unit["load_max"][1]
             x(i) == load_min * d + i * (load_max - load_min)
             hr_min == MinOf({poly1d(fit_params, x(i), d) : i \in 0..d})
         IN  IF FloorDen * hr_min < FloorNum * Den THEN None ELSE <<hr_min>>

\* --------------------------------------------------------- _min_hr_filter
\* Population statistics of a sequence of heat rates v, without division:
\* n = len, S = sum, n*n*variance = n*Q - S*S (numpy's std, ddof = 0).
Squares(v) == [i \in DOMAIN v |-> v[i] * v[i]]
NVar(v) == Len(v) * SumSeq(Squares(v)) - SumSeq(v) * SumSeq(v)

\* x < mean(v) - k * std(v); a comparison with the NaN of an empty v is false.
BelowBand(x, v, k) ==
    LET dev == SumSeq(v) - Len(v) * x
    IN  Len(v) > 0 /\ dev > 0 /\ dev * dev > k * k * NVar(v)

\* Variant of AboveBand with a closed band edge: x >= mean(v) + k * std(v).
AboveBand_closed(x, v, k) ==
    LET dev == Len(v) * x - SumSeq(v)
    IN  Len(v) > 0 /\ dev >= 0 /\ dev * dev >= k * k * NVar(v)

\* x > mean(v) + k * std(v)
AboveBand(x, v, k) ==
    LET dev == Len(v) * x - SumSeq(v)
    IN  Len(v) > 0 /\ dev > 0 /\ dev * dev > k * k * NVar(v)

\* Variant of TruncatedValues that leaves the population as it is.
TruncatedValues_none(values, threshold) == values

\* min_hr_values after the two truncations by the hard thresholds.
TruncatedValues(values, threshold) ==
    LET above == IF threshold[1] # None
                 THEN SelectSeq(values, LAMBDA x : x > threshold[1][1] * Den)
                 ELSE values
    IN  IF threshold[2] # None
        THEN SelectSeq(above, LAMBDA x : x < threshold[2][1] * Den)
        ELSE above

\* min_hr.values < thresh[0]
BelowThresh(x, min_hr_values, k, threshold) ==
    IF threshold[1] # None
    THEN x < threshold[1][1] * Den
    ELSE BelowBand(x, min_hr_values, k)

\* min_hr.values > thresh[1]
AboveThresh(x, min_hr_values, k, threshold) ==
    IF threshold[2] # None
    THEN x > threshold[2][1] * Den
    ELSE AboveBand(x, min_hr_values, k)

\* min_hr: sequence of [id, hr]; returns the index labels that failed.
_min_hr_filter(min_hr, stdev_multiplier, threshold) ==
    LET values == [i \in DOMAIN min_hr |-> min_hr[i].hr]
        min_hr_values == TruncatedValues(values, threshold)
        pos == {i \in DOMAIN min_hr :
                  \/ BelowThresh(values[i], min_hr_values, stdev_multiplier, threshold)
                  \/ AboveThresh(values[i], min_hr_values, stdev_multiplier, threshold)}
    IN  {min_hr[i].id : i \in pos}

\* ---------------------------------------------------------------- _filter
\* Variant of filter_cols without the exclusion of load_min and load_max.
filter_cols_all ==
    {c \in Columns \ {"unit_id"} :
        startswith(c, "a") \/ startswith(c, "heat_rate") \/ startswith(c, "load")}

\* Columns set to None on a failed row.
filter_cols ==
    {c \in Columns \ {"unit_id"} :
        /\ startswith(c, "a") \/ startswith(c, "heat_rate") \/ startswith(c, "load")
        /\ c \notin {"load_min", "load_max"}}

\* Variant of SetNone writing 0 instead of None.
SetNone_zero(df, index, failed_units) ==
    [i \in DOMAIN df |->
        IF index[i] \in failed_units
        THEN [c \in DOMAIN df[i] |-> IF c \in filter_cols THEN <<0>> ELSE df[i][c]]
        ELSE df[i]]

\* df.loc[failed_units, filter_cols] = None, for a frame whose i-th row has
\* the index label index[i].
SetNone(df, index, failed_units) ==
    [i \in DOMAIN df |->
        IF index[i] \in failed_units
        THEN [c \in DOMAIN df[i] |-> IF c \in filter_cols THEN None ELSE df[i][c]]
        ELSE df[i]]

\* df.apply(_get_hr_min, axis=1).dropna(), as [id, hr] in row order.
MinHrSeries(df, index) ==
    LET applied == [i \in DOMAIN df |-> [id |-> index[i], hr |-> _get_hr_min(df[i])]]
        defined == SelectSeq(applied, LAMBDA r : r.hr # None)
    IN  [i \in DOMAIN defined |-> [id |-> defined[i].id, hr |-> defined[i].hr[1]]]

kwarg(kwargs, name, default) ==
    IF name \in DOMAIN kwargs THEN kwargs[name] ELSE default

\* df.set_index('unit_id'): the index labels of the rows.
unit_id_index(df) == [i \in DOMAIN df |-> df[i]["unit_id"]]

\* Returns [raised, df]: a keyword _min_hr_filter does not take is a TypeError.
_filter(group_df, kwargs) ==
    IF ~(DOMAIN kwargs \subseteq {"stdev_multiplier", "threshold"})
    THEN [raised |-> TRUE, df |-> group_df]
    ELSE LET min_hr == MinHrSeries(group_df, unit_id_index(group_df))
             failed_units == _min_hr_filter(min_hr,
                                 kwarg(kwargs, "stdev_multiplier", DefaultMultiplier),
                                 kwarg(kwargs, "threshold", <<None, None>>))
         IN  [raised |-> FALSE,
              df |-> SetNone(group_df, unit_id_index(group_df), failed_units)]

\* -------------------------------------------------------------- _filer_CCs
\* unit_id.str.split('-').str[0]: the characters before the first '-'.
RECURSIVE SplitFirst(_, _)
SplitFirst(s, sep) ==
    IF s = <<>> \/ Head(s) = sep THEN <<>> ELSE <<Head(s)>> \o SplitFirst(Tail(s), sep)

\* Variant of cc_id_index without the split: every fit row its own CC unit.
cc_id_index_unsplit(cc_df) == [i \in DOMAIN cc_df |-> cc_df[i]["unit_id"]]

\* cc_df['cc_id'], the index of the frame after set_index('cc_id').
cc_id_index(cc_df) == [i \in DOMAIN cc_df |-> SplitFirst(cc_df[i]["unit_id"], "-")]

\* cc_min_hr.groupby('cc_id').min(): one [id, hr] per cc_id with a defined minimum.
cc_min_hr(cc_df) ==
    LET rows == MinHrSeries(cc_df, cc_id_index(cc_df))
        ids == {rows[i].id : i \in DOMAIN rows}
        first(id) == MinOf({i \in DOMAIN rows : rows[i].id = id})
        firsts == SelectSeq([i \in DOMAIN rows |-> i], LAMBDA i : i = first(rows[i].id))
    IN  [j \in DOMAIN firsts |->
            [id |-> rows[firsts[j]].id,
             hr |-> MinOf({rows[i].hr : i \in {i \in DOMAIN rows : rows[i].id = rows[firsts[j]].id}})]]

\* Variant of reset_index that turns the index back into a cc_id column.
reset_index_keep(df, index) ==
    [i \in DOMAIN df |->
        [c \in DOMAIN df[i] \cup {"cc_id"} |-> IF c = "cc_id" THEN index[i] ELSE df[i][c]]]

\* cc_df.reset_index(drop=True): the index labels are discarded.
reset_index(df, index) == df

\* Variant of _filer_CCs handing cut_off over as the lower hard threshold.
_filer_CCs_lower(cc_df, kwargs) ==
    IF ~(DOMAIN kwargs \subseteq {"stdev_multiplier", "cut_off"})
    THEN [raised |-> TRUE, df |-> cc_df]
    ELSE LET cut_off == kwarg(kwargs, "cut_off", DefaultCutOff)
             failed_units == _min_hr_filter(cc_min_hr(cc_df),
                                 kwarg(kwargs, "stdev_multiplier", DefaultMultiplier),
                                 <<<<cut_off>>, None>>)
         IN  [raised |-> FALSE,
              df |-> reset_index(SetNone(cc_df, cc_id_index(cc_df), failed_units),
                                 cc_id_index(cc_df))]

_filer_CCs(cc_df, kwargs) ==
    IF ~(DOMAIN kwargs \subseteq {"stdev_multiplier", "cut_off"})
    THEN [raised |-> TRUE, df |-> cc_df]
    ELSE LET cut_off == kwarg(kwargs, "cut_off", DefaultCutOff)
             failed_units == _min_hr_filter(cc_min_hr(cc_df),
                                 kwarg(kwargs, "stdev_multiplier", DefaultMultiplier),
                                 <<None, <<cut_off>>>>)
         IN  [raised |-> FALSE,
              df |-> reset_index(SetNone(cc_df, cc_id_index(cc_df), failed_units),
                                 cc_id_index(cc_df))]

\* ------------------------------------------------------------------ state
\* hr_fits:  the fit store FitFilter was built on: group type -> fit table.
\* out_fits: the store of out_dir: group type -> None or <<fit table>>.
\* fitted:   the store as the curve fitter wrote it (never changes).
\* call:     None, or <<the last call of FitFilter.filter>>: its arguments,
\*           the two stores it found and the group it raised in (0: none).
VARIABLES hr_fits, out_fits, fitted, call

\* The state of the curve fitter (PolyFit):
\* h5:       the filtered store PolyFit was built on: group type -> the
\*           units of the group in the order the store yields them.
\* order:    PolyFit._order.
\* fit_call: None, or <<the call of PolyFit that was made: arguments and
\*           outcome>>.  PolyFit keeps nothing between calls (h5 and order
\*           are only read), so a behaviour holds one call.
\* fit_files: the files fit_group may save to: file name -> None, or
\*           <<what was written>>.
VARIABLES h5, order, fit_call, fit_files

\* The state of the cluster filter (Filter):
\* clean_h5: the pre-cleaned store Filter was built on.
\* years:    Filter._years.
\* out_h5:   the store filter_groups / filter_all write to.
\* run:      None, or <<the call of filter_groups / filter_all under way or
\*           last finished>>.
VARIABLES clean_h5, years, out_h5, run

fit_filter_vars == <<hr_fits, out_fits, fitted, call>>
poly_fit_vars == <<h5, order, fit_call, fit_files>>
filter_vars == <<clean_h5, years, out_h5, run>>
vars == <<hr_fits, out_fits, fitted, call, h5, order, fit_call, fit_files,
          clean_h5, years, out_h5, run>>

\* ---------------------------------------------------- FitFilter.filter
\* fit_units = np.sum(~group_df['a0'].isnull())
fit_units(group_df) == Cardinality({i \in DOMAIN group_df : ~isnull(group_df[i]["a0"])})

\* Variant of IsFiltered that never skips a group.
IsFiltered_always(group_df, min_units) == TRUE

\* fit_units > min_units: the group is filtered, otherwise skipped.
IsFiltered(group_df, min_units) == fit_units(group_df) > min_units

\* Variant of filter_groups_from that counts the fitted units of the whole
\* store, not of the group, against min_units.
RECURSIVE filter_groups_from_store_units(_, _, _, _, _, _)
filter_groups_from_store_units(i, hr, out, out_dir, min_units, kwargs) ==
    IF i > Len(group_types)
    THEN [hr_fits |-> hr, out_fits |-> out, raised |-> 0]
    ELSE LET g_type == group_types[i]
             group_df == hr[g_type]
             all_units == SumSeq([k \in DOMAIN group_types |-> fit_units(hr[group_types[k]])])
         IN  IF all_units > min_units
             THEN LET res == IF ContainsCC(g_type)
                             THEN _filer_CCs(group_df, kwargs)
                             ELSE _filter(group_df, kwargs)
                  IN  IF res.raised
                      THEN [hr_fits |-> hr, out_fits |-> out, raised |-> i]
                      ELSE IF out_dir # None
                           THEN filter_groups_from_store_units(i + 1, hr,
                                    [out EXCEPT ![g_type] = <<res.df>>],
                                    out_dir, min_units, kwargs)
                           ELSE filter_groups_from_store_units(i + 1,
                                    [hr EXCEPT ![g_type] = res.df], out,
                                    out_dir, min_units, kwargs)
             ELSE IF out_dir # None
                  THEN filter_groups_from_store_units(i + 1, hr,
                           [out EXCEPT ![g_type] = <<group_df>>],
                           out_dir, min_units, kwargs)
                  ELSE filter_groups_from_store_units(i + 1, hr, out, out_dir,
                                                      min_units, kwargs)

\* The loop over the group types from the i-th on; hr and out are the two
\* stores so far.  An exception leaves the loop with what was written:
\* raised is the position of the group that raised, 0 when none did.
RECURSIVE filter_groups_from(_, _, _, _, _, _)
filter_groups_from(i, hr, out, out_dir, min_units, kwargs) ==
    IF i > Len(group_types)
    THEN [hr_fits |-> hr, out_fits |-> out, raised |-> 0]
    ELSE LET g_type == group_types[i]
             group_df == hr[g_type]
         IN  IF IsFiltered(group_df, min_units)
             THEN LET res == IF ContainsCC(g_type)
                             THEN _filer_CCs(group_df, kwargs)
                             ELSE _filter(group_df, kwargs)
                  IN  IF res.raised
                      THEN [hr_fits |-> hr, out_fits |-> out, raised |-> i]
                      ELSE IF out_dir # None
                           THEN filter_groups_from(i + 1, hr,
                                    [out EXCEPT ![g_type] = <<res.df>>],
                                    out_dir, min_units, kwargs)
                           ELSE filter_groups_from(i + 1,
                                    [hr EXCEPT ![g_type] = res.df], out,
                                    out_dir, min_units, kwargs)
             ELSE IF out_dir # None
                  THEN filter_groups_from(i + 1, hr,
                           [out EXCEPT ![g_type] = <<group_df>>],
                           out_dir, min_units, kwargs)
                  ELSE filter_groups_from(i + 1, hr, out, out_dir, min_units, kwargs)

\* The keyword arguments the model calls FitFilter.filter with.
Kwargs ==
    { <<>>,
      [stdev_multiplier |-> 1],
      [stdev_multiplier |-> 1, cut_off |-> 8],
      [stdev_multiplier |-> 1, threshold |-> <<None, <<9>>>>],
      [stdev_multiplier |-> 1, threshold |-> <<<<7>>, None>>] }

filter(out_dir, min_units, kwargs) ==
    \E res \in {filter_groups_from(1, hr_fits, out_fits, out_dir, min_units, kwargs)} :
        /\ hr_fits' = res.hr_fits
        /\ out_fits' = res.out_fits
        /\ call' = <<[hr_fits |-> hr_fits, out_fits |-> out_fits, out_dir |-> out_dir,
                      min_units |-> min_units, kwargs |-> kwargs, raised |-> res.raised]>>
        /\ UNCHANGED <<fitted, poly_fit_vars, filter_vars>>

\* ------------------------------------------------------------------- Init
\* The curves the fitter may have written for a unit: coefficients a4..a0
\* over a load domain; a == None is a rejected fit.
CT_curves ==
    << [a |-> <<0, 0, 0, 0, 6>>, load_min |-> 0, load_max |-> 4],
       [a |-> <<0, 0, 0, -1, 11>>, load_min |-> 0, load_max |-> 4],
       [a |-> <<0, 0, 1, -4, 14>>, load_min |-> 0, load_max |-> 4],
       [a |-> <<0, 0, 0, 0, 4>>, load_min |-> 4, load_max |-> 8],
       [a |-> None, load_min |-> 4, load_max |-> 8] >>

CC_curves ==
    << [a |-> <<0, 0, 0, 0, 5>>, load_min |-> 0, load_max |-> 4],
       [a |-> <<0, 0, 0, -1, 12>>, load_min |-> 0, load_max |-> 4],
       [a |-> <<0, 0, 1, -4, 14>>, load_min |-> 0, load_max |-> 4],
       [a |-> <<0, 0, 0, 1, 0>>, load_min |-> 4, load_max |-> 8],
       [a |-> None, load_min |-> 4, load_max |-> 8] >>

\* The curves the i-th CC row may hold: any for the operating modes of unit 7,
\* the first three (fits with a plausible minimum) for the sub-unit rows.
CC_choices(i) == IF i <= 2 THEN DOMAIN CC_curves ELSE 1..3

\* The row extract_fit returns for a curve (points = 5), with its id and group.
fit_row(unit_id, curve, g_type) ==
    LET load_range == [i \in 1..5 |->
                          curve.load_min + (i - 1) * ((curve.load_max - curve.load_min) \div 4)]
        cell(c) ==
            CASE c = "unit_id" -> unit_id
              [] c = "group_type" -> <<g_type>>
              [] c = "load_min" -> <<curve.load_min>>
              [] c = "load_max" -> <<curve.load_max>>
              [] c = "total_load" -> <<SumSeq(load_range)>>
              [] c = "min_gen_perc" -> <<curve.load_min, curve.load_max>>
              [] \E i \in 1..5 : c = CoefCols[i] ->
                    IF curve.a = None THEN None
                    ELSE <<curve.a[CHOOSE i \in 1..5 : c = CoefCols[i]]>>
              [] \E i \in 2..4 : c = LoadCols[i] ->
                    IF curve.a = None THEN None
                    ELSE <<load_range[CHOOSE i \in 2..4 : c = LoadCols[i]]>>
              [] \E i \in 1..5 : c = HeatRateCols[i] ->
                    IF curve.a = None THEN None
                    ELSE <<poly1d(curve.a, load_range[CHOOSE i \in 1..5 : c = HeatRateCols[i]], 1)>>
    IN  [c \in Columns |-> cell(c)]

\* Unit ids: plain for the i-th CT unit; for the CC rows the operating modes
\* "7-0", "7-1" of unit 7, then the sub-unit ids "8_0", "8_1", "9_0", ...
Digit(n) == <<"0", "1", "2", "3", "4", "5", "6", "7", "8", "9">>[n + 1]
CT_unit_id(i) == <<Digit(i)>>
CC_unit_id(i) ==
    IF i <= 2 THEN <<"7", "-", Digit(i - 1)>>
    ELSE <<Digit(8 + (i - 3) \div 2), "_", Digit((i - 3) % 2)>>

NonDecreasing(f) == \A i \in DOMAIN f : \A j \in DOMAIN f : i <= j => f[i] <= f[j]

CT_table(ct, g) == [i \in DOMAIN ct |-> fit_row(CT_unit_id(i), CT_curves[ct[i]], g)]
CC_table(cc, g) == [i \in DOMAIN cc |-> fit_row(CC_unit_id(i), CC_curves[cc[i]], g)]

\* One group holds up to MaxRows rows of any curves (the CT rows in the order
\* of the catalogue: nothing below depends on the order of a table's rows with
\* distinct ids), the other group a single row: a fitted CT unit, or a CC
\* unit whose fit was rejected.
Init ==
    /\ \E primary \in GroupTypes : \E n \in 0..MaxRows :
         \E big \in [1..n -> 1..5] :
         \E small \in [1..1 -> {IF ContainsCC(primary) THEN 1 ELSE 5}] :
           /\ \A i \in 1..n : big[i] \in (IF ContainsCC(primary) THEN CC_choices(i)
                                                                 ELSE DOMAIN CT_curves)
           /\ ContainsCC(primary) \/ NonDecreasing(big)
           /\ hr_fits = [g \in GroupTypes |->
                           IF ContainsCC(g)
                           THEN CC_table(IF g = primary THEN big ELSE small, g)
                           ELSE CT_table(IF g = primary THEN big ELSE small, g)]
    /\ out_fits = [g \in GroupTypes |-> None]
    /\ fitted = hr_fits
    /\ call = None
    /\ h5 = None /\ order = 4 /\ fit_call = None /\ fit_files = None
    /\ clean_h5 = None /\ years = 1 /\ out_h5 = None /\ run = None

\* FitFilter.filter(out_dir=None, ...): the store is updated in place.
filter_in_place ==
    \E min_units \in {0, MinUnits} : \E kwargs \in Kwargs :
        filter(None, min_units, kwargs)

\* FitFilter.filter(out_dir, ...): the filtered tables go to out_dir.
filter_to_out_dir ==
    \E min_units \in {0, MinUnits} : \E kwargs \in {<<>>, [stdev_multiplier |-> 1]} :
        filter(<<"out_dir">>, min_units, kwargs)

Next == filter_in_place \/ filter_to_out_dir

Spec == Init /\ [][Next]_vars

\* ============================================================== properties
\* The last call of FitFilter.filter and what it did to a group.
Called == call # None
last == call[1]
Position(g) == CHOOSE i \in DOMAIN group_types : group_types[i] = g
\* The loop reached g and finished it.
Completed(g) == Called /\ (last.raised = 0 \/ Position(g) < last.raised)
Pre(g) == last.hr_fits[g]
\* The table the call produced for g: written in place, or to out_dir.
Post(g) == IF last.out_dir = None THEN hr_fits[g] ELSE out_fits[g][1]
WasFiltered(g) == Completed(g) /\ fit_units(Pre(g)) > last.min_units
WasSkipped(g) == Completed(g) /\ fit_units(Pre(g)) <= last.min_units
Multiplier == IF "stdev_multiplier" \in DOMAIN last.kwargs
              THEN last.kwargs["stdev_multiplier"] ELSE DefaultMultiplier
Threshold == IF "threshold" \in DOMAIN last.kwargs
             THEN last.kwargs["threshold"] ELSE <<None, None>>
CutOff == IF "cut_off" \in DOMAIN last.kwargs THEN last.kwargs["cut_off"] ELSE DefaultCutOff

\* Sum of f over a finite set of indices.
RECURSIVE SumOver(_, _)
SumOver(I, f) ==
    IF I = {} THEN 0
    ELSE LET i == CHOOSE j \in I : TRUE IN f[i] + SumOver(I \ {i}, f)

\* For heat rates hr (a function) and the population I of its indices:
\* hr[i] - mean, and the variance, both scaled by n = |I| resp. n*n.
Deviation(i, I, hr) == Cardinality(I) * hr[i] - SumOver(I, hr)
ScaledVariance(I, hr) ==
    Cardinality(I) * SumOver(I, [j \in I |-> hr[j] * hr[j]]) - SumOver(I, hr) * SumOver(I, hr)
\* hr[i] < mean - k*stdev, resp. hr[i] > mean + k*stdev, over the population I.
StrictlyBelow(i, I, hr, k) ==
    /\ I # {}
    /\ Deviation(i, I, hr) < 0
    /\ Deviation(i, I, hr) * Deviation(i, I, hr) > k * k * ScaledVariance(I, hr)
StrictlyAbove(i, I, hr, k) ==
    /\ I # {}
    /\ Deviation(i, I, hr) > 0
    /\ Deviation(i, I, hr) * Deviation(i, I, hr) > k * k * ScaledVariance(I, hr)

\* Rows of a table with a defined minimum heat rate, and those minima.
Defined(df) == {i \in DOMAIN df : _get_hr_min(df[i]) # None}
Minima(df) == [i \in Defined(df) |-> _get_hr_min(df[i])[1]]

\* post is pre marked failed: coefficients, heat-rate samples and interior
\* load samples missing, every other column as it was.
InteriorLoadCols == {"load_2", "load_3", "load_4"}
MarkedFailed(pre, post) ==
    /\ DOMAIN post = DOMAIN pre
    /\ \A c \in Range(CoefCols) \cup Range(HeatRateCols) \cup InteriorLoadCols : post[c] = None
    /\ \A c \in DOMAIN pre \ (Range(CoefCols) \cup Range(HeatRateCols) \cup InteriorLoadCols) :
          post[c] = pre[c]

NonCC == {g \in GroupTypes : ~ContainsCC(g)}
CC == {g \in GroupTypes : ContainsCC(g)}

\* C1: in a non-CC group filtered without hard thresholds, a unit is marked
\* failed iff its minimum heat rate is strictly below mean - k*stdev or
\* strictly above mean + k*stdev of the group's defined minima; every other
\* unit keeps all of its columns.
C1_BandRejection ==
    \A g \in NonCC :
        (WasFiltered(g) /\ Threshold = <<None, None>>) =>
            LET pre == Pre(g)
                hr == Minima(pre)
                I == Defined(pre)
            IN  /\ Len(Post(g)) = Len(pre)
                /\ \A i \in DOMAIN pre :
                      IF i \in I /\ (StrictlyBelow(i, I, hr, Multiplier)
                                       \/ StrictlyAbove(i, I, hr, Multiplier))
                      THEN MarkedFailed(pre[i], Post(g)[i])
                      ELSE Post(g)[i] = pre[i]

\* C1 witness: such a call failed one unit for lying above the band, one for
\* lying below it, or kept a unit whose minimum lies exactly on an edge.
C1_Witness ==
    \E g \in NonCC :
        /\ WasFiltered(g) /\ Threshold = <<None, None>>
        /\ \E i \in Defined(Pre(g)) : \E j \in Defined(Pre(g)) :
              /\ StrictlyAbove(i, Defined(Pre(g)), Minima(Pre(g)), Multiplier)
              /\ Post(g)[i] # Pre(g)[i]
              /\ Post(g)[j] = Pre(g)[j]

\* Whether unit i fails against the band whose statistical edges come from
\* the population I and whose edges threshold overrides where it is given.
Fails(i, I, hr, k, threshold) ==
    \/ IF threshold[1] # None THEN hr[i] < threshold[1][1] * Den
                              ELSE StrictlyBelow(i, I, hr, k)
    \/ IF threshold[2] # None THEN hr[i] > threshold[2][1] * Den
                              ELSE StrictlyAbove(i, I, hr, k)

\* The units of I strictly inside the hard thresholds.
Inside(I, hr, threshold) ==
    {i \in I : /\ threshold[1] = None \/ hr[i] > threshold[1][1] * Den
               /\ threshold[2] = None \/ hr[i] < threshold[2][1] * Den}

OneThreshold == (Threshold[1] = None) # (Threshold[2] = None)

\* Post(g) is Pre(g) with exactly the units of Failed marked failed.
Rejected(g, Failed) ==
    /\ Len(Post(g)) = Len(Pre(g))
    /\ \A i \in DOMAIN Pre(g) :
          IF i \in Failed THEN MarkedFailed(Pre(g)[i], Post(g)[i])
                          ELSE Post(g)[i] = Pre(g)[i]

SameArguments(c, d) ==
    /\ c.out_dir = d.out_dir
    /\ c.min_units = d.min_units
    /\ c.kwargs = d.kwargs

\* C3: outlier rejection is idempotent: a second run of FitFilter.filter with
\* the same parameters on the store the first run produced changes no row.
C3_Idempotent ==
    [][(/\ Called
        /\ last.out_dir = None
        /\ last.raised = 0
        /\ SameArguments(call'[1], last)
        /\ call'[1].raised = 0) => hr_fits' = hr_fits]_vars

\* The table FitFilter.filter writes for g when it applies the rejection.
RejectionApplied(g) ==
    IF ContainsCC(g) THEN _filer_CCs(Pre(g), last.kwargs).df
                     ELSE _filter(Pre(g), last.kwargs).df

\* C4: a group is skipped only when it has fewer fitted units than min_units:
\* whenever the fitted-unit count is at least min_units the rejection is applied.
C4_FilteredFromMinUnits ==
    \A g \in GroupTypes :
        (Completed(g) /\ fit_units(Pre(g)) >= last.min_units) =>
            Post(g) = RejectionApplied(g)

\* The part of a unit id before the first of the separators seps.
PrefixBefore(id, seps) ==
    LET at == {k \in DOMAIN id : id[k] \in seps}
    IN  IF at = {} THEN id ELSE SubSeq(id, 1, MinOf(at) - 1)

\* The aggregates of a CC table when its rows are grouped by the prefix of
\* their ids before seps: the prefixes with a defined minimum, and for each
\* the least of its rows' defined minima.
Aggregates(df, seps) ==
    {PrefixBefore(df[i]["unit_id"], seps) : i \in Defined(df)}
Representative(df, seps) ==
    [p \in Aggregates(df, seps) |->
        MinOf({Minima(df)[i] : i \in {j \in Defined(df) :
                                        PrefixBefore(df[j]["unit_id"], seps) = p}})]

\* C5 (as claimed): the fit rows of a CC group are aggregated under the prefix
\* of their id before '-' or '_', and the aggregate's representative minimum
\* is the least of its rows' defined minima ("7_0", "7_1" give one cc_id "7").
C5_GroupedByDashOrUnderscore ==
    \A g \in CC :
        WasFiltered(g) =>
            LET series == cc_min_hr(Pre(g))
                rep == Representative(Pre(g), {"-", "_"})
            IN  /\ {series[i].id : i \in DOMAIN series} = DOMAIN rep
                /\ \A i \in DOMAIN series : series[i].hr = rep[series[i].id]
                /\ \A i \in DOMAIN series : \A j \in DOMAIN series :
                      series[i].id = series[j].id => i = j

\* C5 (amended): the rows are aggregated under the prefix of their id before
\* the first '-' only ("7-0", "7-1" give one cc_id "7" whose representative
\* minimum is the least of the two; "8_0", "8_1" stay two aggregates).
C5_GroupedByDash ==
    \A g \in CC :
        WasFiltered(g) =>
            LET series == cc_min_hr(Pre(g))
                rep == Representative(Pre(g), {"-"})
            IN  /\ {series[i].id : i \in DOMAIN series} = DOMAIN rep
                /\ \A i \in DOMAIN series : series[i].hr = rep[series[i].id]
                /\ \A i \in DOMAIN series : \A j \in DOMAIN series :
                      series[i].id = series[j].id => i = j

\* C5 witness: a filtered CC table in which "7-0" and "7-1" have different
\* defined minima and "8_0" and "8_1" both have one.
C5_Witness ==
    \E g \in CC :
        /\ WasFiltered(g)
        /\ {1, 2, 3, 4} \subseteq Defined(Pre(g))
        /\ Minima(Pre(g))[1] # Minima(Pre(g))[2]
        /\ Pre(g)[1]["unit_id"] = <<"7", "-", "0">>
        /\ Pre(g)[4]["unit_id"] = <<"8", "_", "1">>

\* The rows of CC unit p, and the CC units that fail when the band has the
\* hard upper edge cut_off and the lower edge mean - k*stdev of the
\* representative minima strictly below cut_off.
Members(df, p) == {i \in DOMAIN df : PrefixBefore(df[i]["unit_id"], {"-"}) = p}
FailedCCs(df, k, cut_off) ==
    LET rep == Representative(df, {"-"})
        P == DOMAIN rep
    IN  {p \in P : Fails(p, Inside(P, rep, <<None, <<cut_off>>>>), rep, k,
                         <<None, <<cut_off>>>>)}

C7_RowsOnlyInvalidated ==
    \A g \in GroupTypes :
        WasFiltered(g) =>
            /\ Len(Post(g)) = Len(Pre(g))
            /\ \A i \in DOMAIN Pre(g) :
                  /\ DOMAIN Post(g)[i] = Columns
                  /\ Post(g)[i]["unit_id"] = Pre(g)[i]["unit_id"]
                  /\ Post(g)[i]["load_min"] = Pre(g)[i]["load_min"]
                  /\ Post(g)[i]["load_max"] = Pre(g)[i]["load_max"]
                  /\ Post(g)[i] = Pre(g)[i] \/ MarkedFailed(Pre(g)[i], Post(g)[i])

\* C7 witness: a call failed a row and left its load_min in place.
C7_Witness ==
    \E g \in GroupTypes :
        /\ WasFiltered(g)
        /\ \E i \in DOMAIN Pre(g) :
              /\ Post(g)[i] # Pre(g)[i]
              /\ Post(g)[i]["a0"] = None
              /\ Post(g)[i]["load_min"] # None

\* The heat rates of a row's curve at the hr_points samples of its domain,
\* and whether the row has a minimum: no coefficient is missing and no
\* sample lies below the floor.
Samples(row) ==
    LET coef == [i \in DOMAIN CoefCols |-> row[CoefCols[i]][1]]
        lo == row["load_min"][1]
        hi == row["load_max"][1]
    IN  {poly1d(coef, lo * (hr_points - 1) + i * (hi - lo), hr_points - 1) :
            i \in 0..(hr_points - 1)}
HasMinimum(row) ==
    /\ \A c \in Range(CoefCols) : row[c] # None
    /\ \A v \in Samples(row) : FloorDen * v >= FloorNum * Den
WithMinimum(df) == {i \in DOMAIN df : HasMinimum(df[i])}
SampledMinima(df) == [i \in WithMinimum(df) |-> MinOf(Samples(df[i]))]

\* The units of a non-CC group that fail when the population is the units
\* with a minimum.
FailedUnits(df, k, threshold) ==
    LET I == WithMinimum(df)
        hr == SampledMinima(df)
    IN  {i \in I : Fails(i, Inside(I, hr, threshold), hr, k, threshold)}

\* C8 (as claimed): a row with a missing coefficient, or whose sampled minimum
\* is below 4.5, has no minimum, is left out of the mean and the standard
\* deviation, and is never marked failed, in any group.
C8_NoMinimumNeverFailed ==
    /\ \A g \in GroupTypes :
          WasFiltered(g) =>
              \A i \in DOMAIN Pre(g) : ~HasMinimum(Pre(g)[i]) => Post(g)[i] = Pre(g)[i]
    /\ \A g \in NonCC :
          WasFiltered(g) => Rejected(g, FailedUnits(Pre(g), Multiplier, Threshold))

\* C8 (amended): such a row has no minimum and is left out of the mean and
\* the standard deviation; in a non-CC group it is never marked failed; in a
\* CC group it is marked failed exactly when another row of its cc_id has a
\* minimum and that CC unit fails (a cc_id none of whose rows has a minimum
\* keeps all of its rows).
C8_NoMinimumOutsidePopulation ==
    /\ \A g \in NonCC :
          WasFiltered(g) =>
              /\ \A i \in DOMAIN Pre(g) : ~HasMinimum(Pre(g)[i]) => Post(g)[i] = Pre(g)[i]
              /\ Rejected(g, FailedUnits(Pre(g), Multiplier, Threshold))
    /\ \A g \in CC :
          WasFiltered(g) =>
              \A i \in DOMAIN Pre(g) :
                  (/\ ~HasMinimum(Pre(g)[i])
                   /\ Post(g)[i] # Pre(g)[i]) =>
                      \E j \in WithMinimum(Pre(g)) :
                          /\ PrefixBefore(Pre(g)[j]["unit_id"], {"-"})
                               = PrefixBefore(Pre(g)[i]["unit_id"], {"-"})
                          /\ Post(g)[j] # Pre(g)[j]

\* C8 witness: a filtered non-CC group held a row without coefficients and a
\* row whose minimum is below the floor, kept both, and failed another unit.
C8_Witness ==
    \E g \in NonCC :
        /\ WasFiltered(g)
        /\ \E i \in DOMAIN Pre(g) : Pre(g)[i]["a0"] = None /\ Post(g)[i] = Pre(g)[i]
        /\ \E i \in DOMAIN Pre(g) :
              /\ Pre(g)[i]["a0"] # None
              /\ ~HasMinimum(Pre(g)[i])
              /\ Post(g)[i] = Pre(g)[i]
        /\ \E i \in WithMinimum(Pre(g)) : Post(g)[i] # Pre(g)[i]

\* The coefficient cells of table df after a step are those of table old
\* before it or missing, and those of the fitter's table fit or missing.
OnlyInvalidated(old, df, fit) ==
    /\ Len(df) = Len(fit)
    /\ \A i \in DOMAIN df : \A c \in Range(CoefCols) :
          /\ df[i][c] # None => df[i][c] = fit[i][c]
          /\ (Len(old) = Len(df) /\ old[i][c] = None) => df[i][c] = None

\* C9: fit rows are only ever invalidated, never re-fit: over any sequence of
\* FitFilter.filter runs a missing coefficient stays missing, the coefficients
\* of a row that is still valid are those the curve fitter wrote, and the set
\* of valid rows never grows (also in the tables written to out_dir).
C9_OnlyEverInvalidated ==
    [][\A g \in GroupTypes :
          /\ OnlyInvalidated(hr_fits[g], hr_fits'[g], fitted[g])
          /\ (call'[1].out_dir # None /\ out_fits'[g] # None) =>
                OnlyInvalidated(hr_fits[g], out_fits'[g][1], fitted[g])]_vars

\* C9 witness: a run invalidated a row of a store in which an earlier run had
\* already invalidated another, and a row is still valid.
C9_Witness ==
    \E g \in GroupTypes :
        /\ Called
        /\ \E i \in DOMAIN Pre(g) : Pre(g)[i]["a0"] = None /\ fitted[g][i]["a0"] # None
        /\ \E i \in DOMAIN Pre(g) : Pre(g)[i]["a0"] # None /\ hr_fits[g][i]["a0"] = None
        /\ \E i \in DOMAIN Pre(g) : hr_fits[g][i]["a0"] # None

\* C10: a group skipped for too small a population is passed through: none
\* of its rows is changed and skipping raises nothing; with an out_dir the
\* unchanged table is written there, and the source entry stays as it was.
C10_SkippedPassThrough ==
    /\ \A g \in GroupTypes :
          WasSkipped(g) =>
              /\ hr_fits[g] = Pre(g)
              /\ last.out_dir # None => out_fits[g] = <<Pre(g)>>
    /\ (Called /\ \A g \in GroupTypes : fit_units(Pre(g)) <= last.min_units) =>
          last.raised = 0

\* C10 witness: a call with an out_dir skipped a group that the rejection
\* would have changed, and wrote it to out_dir as it was.
C10_Witness ==
    \E g \in GroupTypes :
        /\ WasSkipped(g)
        /\ last.out_dir # None
        /\ out_fits[g] = <<Pre(g)>>
        /\ RejectionApplied(g) # Pre(g)

\* ================================================================ PolyFit
\* ------------------------------------------------------------------ bounds
\* Most points (rows of the filtered time series) of a unit.
MaxPts == 3
\* Largest order extract_fit is called with.
MaxOrder == 5
\* Largest number of curve samples (points) extract_fit is called with.
MaxSamples == 3

\* --------------------------------------------------------------- constants
\* Default order of PolyFit and of extract_fit.
DefaultOrder == 4
\* Default points of extract_fit.
DefaultPoints == 5

\* ------------------------------------------------------------------ numpy
\* np.polyfit(x, y, deg, full=True).  It raises on deg < 0, on an empty x and
\* on x and y of different lengths.  The least-squares coefficients are kept
\* as terms: p[i] is the coefficient of x^(deg + 1 - i) of the fit of degree
\* deg to (x, y).  rank is the rank of the Vandermonde matrix of x, the
\* smaller of its number of columns and the number of distinct values of x.
polyfit(x, y, deg) ==
    IF deg < 0 \/ Len(x) = 0 \/ Len(x) # Len(y)
    THEN [raised |-> TRUE, p |-> <<>>, rank |-> 0]
    ELSE [raised |-> FALSE,
          p |-> [i \in 1..(deg + 1) |-> [power |-> deg + 1 - i, x |-> x, y |-> y, deg |-> deg]],
          rank |-> IF Cardinality(Range(x)) < deg + 1 THEN Cardinality(Range(x))
                                                      ELSE deg + 1]

\* np.linspace(start, stop, num), num >= 2: sample i of num, as a fraction;
\* the first is start and the last is stop.
linspace(start, stop, num) ==
    [i \in 1..num |-> [num |-> start * (num - 1) + (i - 1) * (stop - start),
                       den |-> num - 1]]

\* np.poly1d(p)(x): the value of the fitted polynomial at x, kept as a term.
polyval(p, x) == [poly |-> p, at |-> x]

MaxOf(S) == CHOOSE m \in S : \A v \in S : v <= m

\* ----------------------------------------------------------- pandas.Series
\* A Series is a sequence of <<label, cell>> pairs.
Labels(series) == [i \in DOMAIN series |-> series[i][1]]
HasLabel(series, label) == \E i \in DOMAIN series : series[i][1] = label
at(series, label) == series[CHOOSE i \in DOMAIN series : series[i][1] = label][2]

\* pd.Series(data, index): data None gives missing cells; data of another
\* length than index raises ValueError.
SeriesRaises(data, index) == data # None /\ Len(data) # Len(index)
Series(data, index) ==
    [i \in DOMAIN index |-> <<index[i], IF data = None THEN None ELSE <<data[i]>>>>]

\* series[label] = value: overwrites the label's cell, or appends the label.
SetItem(series, label, cell) ==
    IF HasLabel(series, label)
    THEN [i \in DOMAIN series |-> IF series[i][1] = label THEN <<label, cell>> ELSE series[i]]
    ELSE Append(series, <<label, cell>>)

\* ------------------------------------------------------ PolyFit.extract_fit
\* load_index: 'load_1' .. 'load_<points>', the first renamed load_min and
\* then the last renamed load_max.
load_names == <<"load_1", "load_2", "load_3", "load_4", "load_5", "load_6", "load_7">>
load_index(points) ==
    [i \in 1..points |-> IF i = points THEN "load_max"
                         ELSE IF i = 1 THEN "load_min" ELSE load_names[i]]

\* hr_index: 'heat_rate(<load label>)' for each label of load_index.
hr_names == <<"heat_rate(load_1)", "heat_rate(load_2)", "heat_rate(load_3)",
              "heat_rate(load_4)", "heat_rate(load_5)", "heat_rate(load_6)",
              "heat_rate(load_7)">>
hr_index(points) ==
    [i \in 1..points |-> IF i = points THEN "heat_rate(load_max)"
                         ELSE IF i = 1 THEN "heat_rate(load_min)" ELSE hr_names[i]]

\* The index of the coefficients: always these five labels.
coef_index == <<"a4", "a3", "a2", "a1", "a0">>

\* Variant of load_min_of taking the first element of load as given.
load_min_first(load) == IF Len(load) = 0 THEN None ELSE <<load[1]>>

\* load.min(); np.nan for an empty load.
load_min_of(load) == IF Len(load) = 0 THEN None ELSE <<MinOf(Range(load))>>

\* Variant of load_max_of giving an empty load the domain bound 0.
load_max_of_zero(load) == IF Len(load) = 0 THEN <<0>> ELSE <<MaxOf(Range(load))>>

\* load.max(); np.nan for an empty load.
load_max_of(load) == IF Len(load) = 0 THEN None ELSE <<MaxOf(Range(load))>>

\* if fit[2] > 1
accepted(fit) == ~fit.raised /\ fit.rank > 1

\* Variant of caught that lets the exception of polyfit through.
caught_never(fit) == FALSE

\* except Exception: every exception of polyfit is caught (and logged).
caught(fit) == fit.raised

\* extract_fit(load, heat_rate, order, points): raised is TRUE when an
\* exception leaves the call (then there is no row); attempted tells whether
\* polyfit was called, logged whether logger.exception was.
extract_fit(load, heat_rate, ord, points) ==
    LET attempted == Len(load) # 0
        fit == polyfit(load, heat_rate, ord)
        escaped == attempted /\ fit.raised /\ ~caught(fit)
        ok == attempted /\ accepted(fit)
        load_min == load_min_of(load)
        load_max == load_max_of(load)
        fit_params == IF ok THEN fit.p ELSE None
        load_range == IF ok THEN linspace(load_min[1], load_max[1], points) ELSE None
        hr_range == IF ok THEN [i \in 1..points |-> polyval(fit_params, load_range[i])]
                          ELSE None
        unit_fit == Series(fit_params, coef_index)
        unit_load ==
            SetItem(SetItem(SetItem(SetItem(Series(load_range, load_index(points)),
                "load_min", load_min),
                "load_max", load_max),
                "total_load", <<SumSeq(load)>>),
                "min_gen_perc", IF attempted THEN <<[num |-> load_min[1], den |-> load_max[1]]>>
                                             ELSE None)
        unit_hr == Series(hr_range, hr_index(points))
    IN  IF escaped \/ SeriesRaises(fit_params, coef_index)
        THEN [raised |-> TRUE, attempted |-> attempted, logged |-> FALSE, row |-> <<>>]
        ELSE [raised |-> FALSE, attempted |-> attempted,
              logged |-> attempted /\ fit.raised,
              row |-> unit_fit \o unit_load \o unit_hr]

\* --------------------------------------------------------- PolyFit.fit_unit
\* A unit of the filtered store: [unit_id, group_type, rows], rows the
\* unit's points [load, heat_rate, cluster] in time order.
\* sorted(label for label in unit_df['cluster'].unique() if label >= 0)
RECURSIVE SortedSeq(_)
SortedSeq(S) == IF S = {} THEN <<>> ELSE <<MinOf(S)>> \o SortedSeq(S \ {MinOf(S)})

clusters(unit_df) ==
    SortedSeq({unit_df.rows[i].cluster : i \in DOMAIN unit_df.rows} \cap Nat)

\* unit_df.loc[pos, ['load', 'heat_rate']]
RECURSIVE loc(_, _)
loc(rows, pos) ==
    IF rows = <<>> THEN <<>>
    ELSE (IF Head(rows).cluster \in pos
          THEN <<[load |-> Head(rows).load, heat_rate |-> Head(rows).heat_rate]>>
          ELSE <<>>) \o loc(Tail(rows), pos)

\* cluster_df.sort_values(['load', 'heat_rate'])
PairLeq(a, b) == a.load < b.load \/ (a.load = b.load /\ a.heat_rate <= b.heat_rate)
RECURSIVE Without(_, _)
Without(sq, v) ==
    IF sq = <<>> THEN <<>>
    ELSE IF Head(sq) = v THEN Tail(sq) ELSE <<Head(sq)>> \o Without(Tail(sq), v)
\* Variant of sort_load_heat_rate that leaves the points as they are.
sort_load_heat_rate_none(cluster_df) == cluster_df

RECURSIVE sort_load_heat_rate(_)
sort_load_heat_rate(cluster_df) ==
    IF cluster_df = <<>> THEN <<>>
    ELSE LET first == CHOOSE a \in Range(cluster_df) : \A b \in Range(cluster_df) : PairLeq(a, b)
         IN  <<first>> \o sort_load_heat_rate(Without(cluster_df, first))

\* '{}-{}'.format(unit_id, label) / '{}'.format(unit_id)
fit_id(unit_id, label) == unit_id \o <<"-", Digit(label)>>

\* One cluster's fit: the sorted load and heat rate handed to extract_fit,
\* and what extract_fit made of them.
cluster_fit(unit_df, id, pos, ord, points) ==
    LET cluster_df == sort_load_heat_rate(loc(unit_df.rows, pos))
        load == [i \in DOMAIN cluster_df |-> cluster_df[i].load]
        heat_rate == [i \in DOMAIN cluster_df |-> cluster_df[i].heat_rate]
    IN  [unit_id |-> id, load |-> load, heat_rate |-> heat_rate,
         fit |-> extract_fit(load, heat_rate, ord, points)]

\* Variant of fit_ids giving a unit with one retained label the composite id.
fit_ids_composite(unit_df) ==
    IF Len(clusters(unit_df)) >= 1
    THEN [i \in DOMAIN clusters(unit_df) |->
             [unit_id |-> fit_id(unit_df.unit_id, clusters(unit_df)[i]),
              pos |-> {clusters(unit_df)[i]}]]
    ELSE <<[unit_id |-> unit_df.unit_id, pos |-> Nat]>>

\* The rows fit_unit makes for a unit: one per label when len(clusters) > 1,
\* else one for all points with cluster >= 0.
fit_ids(unit_df) ==
    IF Len(clusters(unit_df)) > 1
    THEN [i \in DOMAIN clusters(unit_df) |->
             [unit_id |-> fit_id(unit_df.unit_id, clusters(unit_df)[i]),
              pos |-> {clusters(unit_df)[i]}]]
    ELSE <<[unit_id |-> unit_df.unit_id, pos |-> Nat]>>

\* fit_unit(unit_df, **kwargs): raised when an extract_fit raised; else
\* unit_fit, one row per fit with the unit's meta data added; calls records
\* each call of extract_fit.
fit_unit(unit_df, ord, points) ==
    LET ids == fit_ids(unit_df)
        calls == [i \in DOMAIN ids |->
                     cluster_fit(unit_df, ids[i].unit_id, ids[i].pos, ord, points)]
    IN  IF \E i \in DOMAIN calls : calls[i].fit.raised
        THEN [raised |-> TRUE, unit_fit |-> <<>>,
              calls |-> SubSeq(calls, 1, CHOOSE i \in DOMAIN calls :
                                            /\ calls[i].fit.raised
                                            /\ \A j \in 1..(i - 1) : ~calls[j].fit.raised)]
        ELSE [raised |-> FALSE,
              unit_fit |-> [i \in DOMAIN calls |->
                              [unit_id |-> calls[i].unit_id,
                               row |-> SetItem(calls[i].fit.row, "group_type",
                                               <<unit_df.group_type>>)]],
              calls |-> calls]

\* -------------------------------------------------------- PolyFit.fit_group
\* fit_group(group_type, **kwargs) from unit i of the group on: the units are
\* fitted in the order the store yields them and their rows concatenated;
\* an exception of fit_unit ends the call.
RECURSIVE fit_group_from(_, _, _, _)
fit_group_from(i, group, ord, points) ==
    IF i > Len(group) THEN [raised |-> FALSE, group_fits |-> <<>>, units |-> <<>>]
    ELSE LET u == fit_unit(group[i], ord, points)
             rest == fit_group_from(i + 1, group, ord, points)
         IN  IF u.raised
             THEN [raised |-> TRUE, group_fits |-> <<>>, units |-> <<u>>]
             ELSE [raised |-> rest.raised,
                   group_fits |-> IF rest.raised THEN <<>> ELSE u.unit_fit \o rest.group_fits,
                   units |-> <<u>> \o rest.units]

\* The keyword arguments of fit_group: none, or points.
points_of(kwargs) == kwarg(kwargs, "points", DefaultPoints)

\* str.endswith on strings as sequences of characters.
endswith(str, suffix) ==
    /\ Len(str) >= Len(suffix)
    /\ SubSeq(str, Len(str) - Len(suffix) + 1, Len(str)) = suffix

\* group_fits.to_csv(out_file) / group_fits.to_json(out_file): the whole
\* table, its index named unit_id, in the file's format.
to_csv(group_fits) == [format |-> "csv", index_name |-> "unit_id", rows |-> group_fits]
to_json(group_fits) == [format |-> "json", index_name |-> "unit_id", rows |-> group_fits]

\* if out_file: ... of fit_group: the table is saved as .csv or .json, and
\* any other name is a ValueError.
save(out_file, group_fits, files) ==
    IF out_file = None THEN [raised |-> FALSE, files |-> files]
    ELSE IF endswith(out_file, <<".", "c", "s", "v">>)
    THEN [raised |-> FALSE, files |-> [files EXCEPT ![out_file] = <<to_csv(group_fits)>>]]
    ELSE IF endswith(out_file, <<".", "j", "s", "o", "n">>)
    THEN [raised |-> FALSE, files |-> [files EXCEPT ![out_file] = <<to_json(group_fits)>>]]
    ELSE [raised |-> TRUE, files |-> files]

\* fit_group(group_type, out_file, **kwargs): error is "fit" when fit_unit
\* raised, "file type" when the save did, else "none".
fit_group(group_type, out_file, kwargs) ==
    /\ fit_call = None
    /\ \E res \in {fit_group_from(1, h5[group_type], order, points_of(kwargs))} :
       \E saved \in {IF res.raised THEN [raised |-> FALSE, files |-> fit_files]
                     ELSE save(out_file, res.group_fits, fit_files)} :
        /\ fit_call' = <<[op |-> "fit_group", group_type |-> group_type,
                          out_file |-> out_file,
                          order |-> order, points |-> points_of(kwargs),
                          raised |-> res.raised \/ saved.raised,
                          error |-> IF res.raised THEN "fit"
                                    ELSE IF saved.raised THEN "file type" ELSE "none",
                          group_fits |-> IF saved.raised THEN <<>> ELSE res.group_fits,
                          units |-> res.units]>>
        /\ fit_files' = saved.files
        /\ UNCHANGED <<h5, order, fit_filter_vars, filter_vars>>

\* PolyFit.extract_fit called on its own (a static method) with the load
\* and heat-rate columns of a unit of the store as they are, the heat rate
\* possibly one value short.
extract_fit_static(group_type, short, ord, points) ==
    /\ fit_call = None
    /\ LET rows == h5[group_type][1].rows
           load == [i \in DOMAIN rows |-> rows[i].load]
           heat_rate == [i \in 1..(Len(rows) - short) |-> rows[i].heat_rate]
       IN  \E res \in {extract_fit(load, heat_rate, ord, points)} :
            /\ fit_call' = <<[op |-> "extract_fit", load |-> load, heat_rate |-> heat_rate,
                              order |-> ord, points |-> points,
                              raised |-> res.raised, attempted |-> res.attempted,
                              logged |-> res.logged, row |-> res.row]>>
            /\ UNCHANGED <<h5, order, fit_files, fit_filter_vars, filter_vars>>

\* ------------------------------------------------------------ PolyFit spec
\* The points a unit of the filtered store may hold: a (load, heat_rate)
\* pair with a cluster label, -1 for noise.
PointChoices ==
    {[load |-> p[1], heat_rate |-> p[2], cluster |-> p[3]] :
        p \in {<<1, 9, -1>>, <<1, 9, 0>>, <<2, 8, 0>>, <<2, 7, 0>>, <<2, 8, 1>>, <<2, 7, 1>>}}

RowChoices == UNION {[1..n -> PointChoices] : n \in 1..MaxPts}

\* The units fit_group may find besides the first one, by id.
other_unit(id) ==
    [unit_id |-> id, group_type |-> "CT (NG)",
     rows |-> <<[load |-> 1, heat_rate |-> 9, cluster |-> 0],
                [load |-> 2, heat_rate |-> 8, cluster |-> 0]>>]

\* The names fit_group is asked to save to.
OutFiles ==
    { <<"f", ".", "c", "s", "v">>, <<"f", ".", "j", "s", "o", "n">>,
      <<"f", ".", "t", "x", "t">>, <<"c", "s", "v">>,
      <<"f", ".", "c", "s", "v", ".", "b">> }

\* PolyFit(filtered_h5, order): the CT group holds a unit of any points,
\* alone or followed by a second unit of a smaller id; the CC group holds
\* one unit without a retained point.
InitFit ==
    /\ \E rows \in RowChoices : \E others \in {<<>>, <<other_unit(<<"1">>)>>} :
          h5 = [g \in GroupTypes |->
                   IF ContainsCC(g)
                   THEN <<[unit_id |-> <<"7">>, group_type |-> g,
                           rows |-> <<[load |-> 1, heat_rate |-> 9, cluster |-> -1]>>]>>
                   ELSE <<[unit_id |-> <<"2">>, group_type |-> g, rows |-> rows]>> \o others]
    /\ order \in {-1, 1, DefaultOrder}
    /\ fit_call = None
    /\ fit_files = [f \in OutFiles |-> None]
    /\ hr_fits = None /\ out_fits = None /\ fitted = None /\ call = None
    /\ clean_h5 = None /\ years = 1 /\ out_h5 = None /\ run = None

FitKwargs == {<<>>} \cup {[points |-> n] : n \in 2..MaxSamples}

fit_group_call ==
    \E g \in GroupTypes :
        \/ \E kwargs \in FitKwargs : fit_group(g, None, kwargs)
        \/ \E out_file \in OutFiles : fit_group(g, out_file, <<>>)

extract_fit_call ==
    \E short \in {0, 1} : \E ord \in -1..MaxOrder : \E points \in 2..MaxSamples :
        extract_fit_static("CT (NG)", short, ord, points)

NextFit == fit_group_call \/ extract_fit_call

SpecFit == InitFit /\ [][NextFit]_vars

\* ----------------------------------------------------- PolyFit properties
FitCalled == fit_call # None
fc == fit_call[1]

\* Every call of extract_fit the observed call made: its arguments and res,
\* what it returned.
ExtractCalls ==
    IF ~FitCalled THEN {}
    ELSE IF fc.op = "extract_fit"
    THEN {[load |-> fc.load, heat_rate |-> fc.heat_rate, order |-> fc.order,
           points |-> fc.points,
           res |-> [raised |-> fc.raised, attempted |-> fc.attempted,
                    logged |-> fc.logged, row |-> fc.row]]}
    ELSE {[load |-> fc.units[u].calls[k].load,
           heat_rate |-> fc.units[u].calls[k].heat_rate,
           order |-> fc.order, points |-> fc.points,
           res |-> fc.units[u].calls[k].fit] :
             <<u, k>> \in {uk \in (DOMAIN fc.units) \X (1..MaxPts) :
                              uk[2] \in DOMAIN fc.units[uk[1]].calls}}

\* The names of coefficient fields, a0 upwards.
coef_names == <<"a0", "a1", "a2", "a3", "a4", "a5", "a6", "a7">>
CoefLabels(row) == Range(Labels(row)) \cap Range(coef_names)
LoadLabels(row) ==
    Range(Labels(row)) \cap (Range(load_names) \cup {"load_min", "load_max"})
HeatRateLabels(row) ==
    Range(Labels(row)) \cap (Range(hr_names) \cup {"heat_rate(load_min)", "heat_rate(load_max)"})
AllMissing(row, labels) == \A l \in labels : at(row, l) = None
AllPresent(row, labels) == \A l \in labels : at(row, l) # None

\* The regression of a call raises / the number of distinct points it is given.
RegressionRaises(c) == c.order < 0 \/ Len(c.load) # Len(c.heat_rate)
DistinctPoints(c) == Cardinality({<<c.load[i], c.heat_rate[i]>> : i \in DOMAIN c.load})

\* C11: extract_fit rejects under-determined fits: in the row returned for
\* an input with fewer than order + 2 distinct points, every coefficient
\* field is missing.
C11_UnderDeterminedRejected ==
    \A c \in ExtractCalls :
        (~RegressionRaises(c) /\ DistinctPoints(c) < c.order + 2 /\ ~c.res.raised) =>
            AllMissing(c.res.row, CoefLabels(c.res.row))

\* C12: extract_fit never propagates a failure of the regression: on a
\* non-empty input on which polyfit raises it returns a row with every
\* coefficient and every sampled-curve field missing and load_min, load_max
\* and total_load filled, and fit_group goes on to the next unit.
C12_FitFailureCaught ==
    /\ \A c \in ExtractCalls :
          (Len(c.load) # 0 /\ RegressionRaises(c)) =>
              /\ ~c.res.raised
              /\ c.res.logged
              /\ CoefLabels(c.res.row) # {}
              /\ AllMissing(c.res.row, CoefLabels(c.res.row))
              /\ AllMissing(c.res.row, HeatRateLabels(c.res.row))
              /\ AllMissing(c.res.row, LoadLabels(c.res.row) \ {"load_min", "load_max"})
              /\ at(c.res.row, "load_min") = <<MinOf(Range(c.load))>>
              /\ at(c.res.row, "load_max") = <<MaxOf(Range(c.load))>>
              /\ at(c.res.row, "total_load") = <<SumSeq(c.load)>>
    /\ (FitCalled /\ fc.op = "fit_group" /\ fc.order < 0) =>
          /\ fc.error # "fit"
          /\ Len(fc.units) = Len(h5[fc.group_type])

\* C12 witness: fit_group went through two units although the regression
\* raised on the first.
C12_Witness ==
    /\ FitCalled /\ fc.op = "fit_group" /\ ~fc.raised
    /\ Len(fc.units) = 2
    /\ \E c \in ExtractCalls : Len(c.load) # 0 /\ RegressionRaises(c) /\ c.res.logged
    /\ Len(fc.group_fits) >= 2

\* The fit of a call is accepted: the regression returned and fit[2] > 1.
Accepted(c) ==
    /\ Len(c.load) # 0 /\ ~RegressionRaises(c)
    /\ Cardinality(Range(c.load)) > 1 /\ c.order >= 1

\* C13: extract_fit honours the requested order: an accepted fit of order n
\* returns, without raising, a row with exactly the n + 1 coefficient fields
\* a_n .. a0, in this order.
C13_OrderHonoured ==
    \A c \in ExtractCalls :
        Accepted(c) =>
            /\ ~c.res.raised
            /\ SubSeq(Labels(c.res.row), 1, c.order + 1)
                  = [i \in 1..(c.order + 1) |-> coef_names[c.order + 2 - i]]
            /\ Cardinality(CoefLabels(c.res.row)) = c.order + 1

\* The distinct labels >= 0 of a unit, ascending.
RetainedLabels(unit_df) ==
    SortedSeq({l \in 0..9 : \E i \in DOMAIN unit_df.rows : unit_df.rows[i].cluster = l})

\* The units fit_group went through, each with what fit_unit returned.
FitUnits ==
    IF FitCalled /\ fc.op = "fit_group"
    THEN {[unit_df |-> h5[fc.group_type][u], res |-> fc.units[u]] : u \in DOMAIN fc.units}
    ELSE {}

\* C14: a unit with no retained point still yields a row: fit_unit returns
\* exactly one row keyed by the bare unit_id, its coefficients, load_min and
\* load_max missing and no fit attempted, and fit_group keeps the row in the
\* group's fit table.
C14_NoRetainedPointRow ==
    \A u \in FitUnits :
        RetainedLabels(u.unit_df) = <<>> =>
            /\ ~u.res.raised
            /\ Len(u.res.unit_fit) = 1
            /\ u.res.unit_fit[1].unit_id = u.unit_df.unit_id
            /\ CoefLabels(u.res.unit_fit[1].row) # {}
            /\ AllMissing(u.res.unit_fit[1].row,
                          CoefLabels(u.res.unit_fit[1].row) \cup {"load_min", "load_max"})
            /\ Len(u.res.calls) = 1 /\ ~u.res.calls[1].fit.attempted
            /\ ~fc.raised => \E i \in DOMAIN fc.group_fits :
                                fc.group_fits[i] = u.res.unit_fit[1]

\* C14 witness: fit_group returned a table of several rows, one of them the
\* row of a unit whose points are all noise.
C14_Witness ==
    /\ FitCalled /\ fc.op = "fit_group" /\ ~fc.raised /\ Len(fc.group_fits) > 1
    /\ \E u \in FitUnits :
          /\ RetainedLabels(u.unit_df) = <<>>
          /\ Len(u.unit_df.rows) > 1
          /\ \E i \in DOMAIN fc.group_fits : fc.group_fits[i] = u.res.unit_fit[1]

\* C15: row dispatch of fit_unit: when fit_unit returns, a unit with more
\* than one distinct label >= 0 has exactly one row per such label, with id
\* "<unit_id>-<label>", in ascending label order; a unit with one or no
\* label >= 0 has exactly one row with the bare unit_id.
C15_RowDispatch ==
    \A u \in FitUnits :
        ~u.res.raised =>
            LET labels == RetainedLabels(u.unit_df)
                ids == [i \in DOMAIN u.res.unit_fit |-> u.res.unit_fit[i].unit_id]
            IN  IF Len(labels) > 1
                THEN ids = [i \in DOMAIN labels |->
                               u.unit_df.unit_id \o <<"-">> \o <<Digit(labels[i])>>]
                ELSE ids = <<u.unit_df.unit_id>>

\* C15 witness: a unit whose points carry the labels 1, -1 and 0, in this
\* order, came back as the two rows "<unit_id>-0" and "<unit_id>-1".
C15_Witness ==
    \E u \in FitUnits :
        /\ ~u.res.raised
        /\ Len(u.unit_df.rows) = 3
        /\ u.unit_df.rows[1].cluster = 1 /\ u.unit_df.rows[2].cluster = -1
        /\ u.unit_df.rows[3].cluster = 0
        /\ Len(u.res.unit_fit) = 2
        /\ u.res.unit_fit[1].unit_id = u.unit_df.unit_id \o <<"-", "0">>

\* C16: every row extract_fit returns for a non-empty input has load_min the
\* minimum and load_max the maximum of the input load, accepted or not; an
\* accepted fit has exactly `points` load samples and `points` heat-rate
\* samples.
C16_LoadDomainPinned ==
    \A c \in ExtractCalls :
        (Len(c.load) # 0 /\ ~c.res.raised) =>
            /\ at(c.res.row, "load_min") = <<MinOf(Range(c.load))>>
            /\ at(c.res.row, "load_max") = <<MaxOf(Range(c.load))>>
            /\ Labels(c.res.row)[Len(coef_index) + 1] = "load_min"
            /\ Labels(c.res.row)[Len(coef_index) + c.points] = "load_max"
            /\ Accepted(c) =>
                  /\ Cardinality(LoadLabels(c.res.row)) = c.points
                  /\ Cardinality(HeatRateLabels(c.res.row)) = c.points
                  /\ AllPresent(c.res.row, LoadLabels(c.res.row) \cup HeatRateLabels(c.res.row))

\* C16 witness: an accepted fit on a load given in descending order, with
\* other than the default number of samples.
C16_Witness ==
    \E c \in ExtractCalls :
        /\ ~c.res.raised /\ Accepted(c)
        /\ Len(c.load) > 1 /\ c.load[1] > c.load[2]
        /\ c.points # DefaultPoints
        /\ at(c.res.row, "load_min") = <<MinOf(Range(c.load))>>

\* os.path.splitext(out_file)[-1]: the name from its last dot on.
LastDot(str) ==
    IF \E i \in DOMAIN str : str[i] = "." THEN MaxOf({i \in DOMAIN str : str[i] = "."}) ELSE 0
Extension(str) == IF LastDot(str) = 0 THEN <<>> ELSE SubSeq(str, LastDot(str), Len(str))
SaveCalls == FitCalled /\ fc.op = "fit_group" /\ fc.out_file # None

\* The number of fit rows of a group: one per retained label of a unit with
\* several, else one per unit.
FitRowCount(g) ==
    SumSeq([k \in DOMAIN h5[g] |->
               IF Len(clusters(h5[g][k])) > 1 THEN Len(clusters(h5[g][k])) ELSE 1])

\* C21: fit_group with an out_file whose extension is neither .csv nor .json
\* raises and writes nothing to out_file; with .csv or .json it writes the
\* complete fit table of the group and raises nothing.
C21_OutFileExtension ==
    SaveCalls =>
        IF Extension(fc.out_file) \in {<<".", "c", "s", "v">>, <<".", "j", "s", "o", "n">>}
        THEN /\ ~fc.raised
             /\ fit_files[fc.out_file] # None
             /\ fit_files[fc.out_file][1].rows = fc.group_fits
             /\ Len(fc.group_fits) = FitRowCount(fc.group_type)
        ELSE /\ fc.raised
             /\ fit_files[fc.out_file] = None

\* ================================================================= Filter
\* ------------------------------------------------------------------ bounds
\* Most units of a group of the pre-cleaned store.
MaxUnits == 2
\* Largest number of years Filter is built with.
MaxYears == 2

\* --------------------------------------------------------------- constants
\* Hours of a year: total_points = years * 8760.
HoursPerYear == 8760
\* min_samples = int(total_points / 1000)
MinSamplesDivisor == 1000
\* threshold = int(total_points / 100)
ThresholdDivisor == 100

\* ------------------------------------------------------- Filter.filter_group
\* Filter.total_points
total_points(y) == y * HoursPerYear

\* Variant of min_samples_of dividing by the divisor of the threshold.
min_samples_of_hundredth(points) == points \div ThresholdDivisor

\* int(total_points / 1000), int(total_points / 100)
min_samples_of(points) == points \div MinSamplesDivisor
threshold_of(points) == points \div ThresholdDivisor

\* The characters of the group types a store may name.
Chars(group_type) ==
    CASE group_type = "CC (NG)" -> <<"C", "C", " ", "(", "N", "G", ")">>
      [] group_type = "CT (NG)" -> <<"C", "T", " ", "(", "N", "G", ")">>
      [] group_type = "Boiler (Coal)" ->
            <<"B", "o", "i", "l", "e", "r", " ", "(", "C", "o", "a", "l", ")">>
      [] group_type = "ICE (NG)" -> <<"I", "C", "E", " ", "(", "N", "G", ")">>
      [] group_type = "IGCC (Coal)" ->
            <<"I", "G", "C", "C", " ", "(", "C", "o", "a", "l", ")">>
      [] group_type = "CC" -> <<"C", "C">>

\* str.split(sep)[0]: the characters before the first occurrence of sep.
RECURSIVE split_first(_, _)
split_first(str, sep) ==
    IF Len(str) < Len(sep) THEN str
    ELSE IF SubSeq(str, 1, Len(sep)) = sep THEN <<>>
    ELSE <<Head(str)>> \o split_first(Tail(str), sep)

\* group_type.split(' (')[0]
unit_type(group_type) == split_first(Chars(group_type), <<" ", "(">>)

\* Variant of filter_of taking every unit type that contains 'CC' as a CC.
filter_of_contains(group_type) ==
    IF \E i \in 1..(Len(unit_type(group_type)) - 1) :
          SubSeq(unit_type(group_type), i, i + 1) = <<"C", "C">>
    THEN "ClusterCC.filter"
    ELSE "SingleCluster.filter"

\* FILTERS.get(unit type, SingleCluster.filter)
FILTERS ==
    (<<"B", "o", "i", "l", "e", "r">> :> "SingleCluster.filter")
        @@ (<<"C", "T">> :> "SingleCluster.filter")
        @@ (<<"C", "C">> :> "ClusterCC.filter")
filter_of(group_type) ==
    IF unit_type(group_type) \in DOMAIN FILTERS THEN FILTERS[unit_type(group_type)]
    ELSE "SingleCluster.filter"

\* A unit of the pre-cleaned store: [unit_id, rows], rows the unit's points
\* [time, load] as stored; a missing load is None.
\* The clustering filters (NaTGenPD.cluster) are called as
\* filter(unit_df, min_samples, threshold=threshold, **kwargs) and return the
\* unit's table with a cluster label on every row.  The label is kept as a
\* term of the filter and its arguments.  The filter raises on a unit with a
\* missing load; the call itself raises TypeError when kwargs names
\* threshold a second time.
call_raises(kwargs) == "threshold" \in DOMAIN kwargs

cluster_filter(fn, unit_df, min_samples, threshold) ==
    IF \E i \in DOMAIN unit_df.rows : unit_df.rows[i].load = None
    THEN [raised |-> TRUE, rows |-> <<>>]
    ELSE [raised |-> FALSE,
          rows |-> [i \in DOMAIN unit_df.rows |->
                      [unit_id |-> unit_df.unit_id, time |-> unit_df.rows[i].time,
                       load |-> unit_df.rows[i].load,
                       cluster |-> [filter |-> fn, min_samples |-> min_samples,
                                    threshold |-> threshold]]]]

\* The job of one unit: the arguments filter_group hands to the filter.
job(group_type, unit_df, y) ==
    [unit_id |-> unit_df.unit_id, filter |-> filter_of(group_type),
     min_samples |-> min_samples_of(total_points(y)),
     threshold |-> threshold_of(total_points(y)),
     done |-> FALSE, result |-> None]

\* Variant of run_job whose job never raises (a failed unit gives no rows).
run_job_quiet(j, unit_df) ==
    [j EXCEPT !.done = TRUE,
              !.result = <<[raised |-> FALSE,
                            rows |-> cluster_filter(j.filter, unit_df, j.min_samples,
                                                    j.threshold).rows]>>]

\* A job run to its end: the filter's table, or its exception.
run_job(j, unit_df) ==
    [j EXCEPT !.done = TRUE,
              !.result = <<cluster_filter(j.filter, unit_df, j.min_samples, j.threshold)>>]

\* Order of unit ids (strings): character by character, a prefix first.
CharRank(ch) == CHOOSE n \in 0..9 : Digit(n) = ch
RECURSIVE StrLess(_, _)
StrLess(a, b) ==
    IF b = <<>> THEN FALSE
    ELSE IF a = <<>> THEN TRUE
    ELSE IF Head(a) = Head(b) THEN StrLess(Tail(a), Tail(b))
    ELSE CharRank(Head(a)) < CharRank(Head(b))

\* Order of the rows under sort_values(['unit_id', 'time']).
RowLeq(a, b) ==
    \/ StrLess(a.unit_id, b.unit_id)
    \/ a.unit_id = b.unit_id /\ a.time <= b.time

\* Variant of sort_values that leaves the rows as concatenated.
sort_values_none(df) == df

\* df.sort_values(['unit_id', 'time']); the rows of a group table have
\* distinct (unit_id, time).
RECURSIVE sort_values(_)
sort_values(df) ==
    IF df = <<>> THEN <<>>
    ELSE LET first == CHOOSE a \in Range(df) : \A b \in Range(df) : RowLeq(a, b)
         IN  <<first>> \o sort_values(Without(df, first))

\* pd.concat of the tables the jobs returned, in the order of the jobs.
RECURSIVE concat(_)
concat(jobs) ==
    IF jobs = <<>> THEN <<>> ELSE Head(jobs).result[1].rows \o concat(Tail(jobs))

\* future.result() / filter(...) raises: position of the first job, in the
\* order of the units, whose filter raised; 0 when none did.
first_raised(jobs) ==
    IF \E j \in DOMAIN jobs : jobs[j].result[1].raised
    THEN CHOOSE j \in DOMAIN jobs : /\ jobs[j].result[1].raised
                                    /\ \A k \in 1..(j - 1) : ~jobs[k].result[1].raised
    ELSE 0

\* pd.concat(group_df).sort_values(['unit_id', 'time']).reset_index(drop=True)
group_df(jobs) == sort_values(concat(jobs))

\* The log records of filter_group before the units and for one unit.
log_group(group_type, y) ==
    << [level |-> "info", msg |-> "Filtering all units", about |-> <<group_type>>],
       [level |-> "debug", msg |-> "Using min_samples",
        about |-> <<min_samples_of(total_points(y))>>],
       [level |-> "debug", msg |-> "Skipping units with < points",
        about |-> <<threshold_of(total_points(y))>>] >>
log_unit(unit_id) == [level |-> "debug", msg |-> "- Filtering unit", about |-> unit_id]

\* Variant of unit_dfs that loses the last unit of the group.
unit_dfs_short(group) == SubSeq(group, 1, Len(group) - 1)

\* group.unit_dfs: the units the store holds for the group, as it yields them.
unit_dfs(group) == group

\* The sequential branch of filter_group from unit k on: each unit is logged
\* and filtered in turn; the first exception ends it.
RECURSIVE filter_units_from(_, _, _, _, _)
filter_units_from(k, group_type, units, y, kwargs) ==
    IF k > Len(units) THEN [jobs |-> <<>>, log |-> <<>>, raised |-> FALSE]
    ELSE IF call_raises(kwargs)
    THEN [jobs |-> <<>>, log |-> <<log_unit(units[k].unit_id)>>, raised |-> TRUE]
    ELSE LET j == run_job(job(group_type, units[k], y), units[k])
             rest == filter_units_from(k + 1, group_type, units, y, kwargs)
         IN  IF j.result[1].raised
             THEN [jobs |-> <<j>>, log |-> <<log_unit(units[k].unit_id)>>, raised |-> TRUE]
             ELSE [jobs |-> <<j>> \o rest.jobs,
                   log |-> <<log_unit(units[k].unit_id)>> \o rest.log,
                   raised |-> rest.raised]

\* filter_group(group_type, parallel=False, **kwargs)
filter_group_sequential(group_type, group, y, kwargs) ==
    LET res == filter_units_from(1, group_type, unit_dfs(group), y, kwargs)
    IN  [raised |-> res.raised, jobs |-> res.jobs,
         log |-> log_group(group_type, y) \o res.log,
         group_df |-> IF res.raised THEN <<>> ELSE group_df(res.jobs)]

\* The parallel branch up to the submission of the jobs: every unit is
\* logged and submitted; a TypeError of the first submit ends it.
submit(group_type, group, y, kwargs) ==
    LET units == unit_dfs(group)
    IN  IF call_raises(kwargs) /\ Len(units) > 0
        THEN [raised |-> TRUE, jobs |-> <<>>,
              log |-> log_group(group_type, y) \o <<log_unit(units[1].unit_id)>>]
        ELSE [raised |-> FALSE,
              jobs |-> [k \in DOMAIN units |-> job(group_type, units[k], y)],
              log |-> log_group(group_type, y)
                        \o [k \in DOMAIN units |-> log_unit(units[k].unit_id)]]

\* ------------------------------------- Filter.filter_groups / filter_all
\* The call under way: op, group_types, parallel and kwargs are its
\* arguments; i is the position of the group being filtered; status is
\* "running", "returned" or "raised"; jobs[n] are the jobs of the n-th group
\* (the futures in the parallel branch), finished the order in which the
\* jobs of the current group ended; found is the destination store as the
\* call opened it.
Running == run # None /\ run[1].status = "running"

\* f_out[g_type] = group_df
written(out, group_type, df) == [out EXCEPT ![group_type] = <<df>>]

\* The sequential call from the group at r.i on, on a given store.
RECURSIVE filter_groups_on(_, _, _)
filter_groups_on(store, r, out) ==
    IF r.i > Len(r.group_types) THEN [run |-> [r EXCEPT !.status = "returned"], out |-> out]
    ELSE LET g == r.group_types[r.i]
             res == filter_group_sequential(g, store[g], years, r.kwargs)
             r2 == [r EXCEPT !.jobs = Append(r.jobs, res.jobs), !.log = r.log \o res.log]
         IN  IF res.raised
             THEN [run |-> [r2 EXCEPT !.status = "raised"], out |-> out]
             ELSE filter_groups_on(store, [r2 EXCEPT !.i = r.i + 1],
                                   written(out, g, res.group_df))

\* The sequential call on the store Filter was built on.
filter_groups_sequential(r, out) == filter_groups_on(clean_h5, r, out)

\* The parallel call at the group at r.i: its jobs are submitted, or the
\* call returns after the last group.
filter_groups_submit(r) ==
    IF r.i > Len(r.group_types) THEN [r EXCEPT !.status = "returned"]
    ELSE LET g == r.group_types[r.i]
             sub == submit(g, clean_h5[g], years, r.kwargs)
         IN  [r EXCEPT !.jobs = Append(r.jobs, sub.jobs), !.log = r.log \o sub.log,
                       !.finished = <<>>,
                       !.status = IF sub.raised THEN "raised" ELSE "running"]

\* filter_groups / filter_all up to the point where the caller waits for
\* jobs: the whole call when sequential.
enter(op, gts, parallel, kwargs, out) ==
    LET r == [op |-> op, group_types |-> gts, parallel |-> parallel, kwargs |-> kwargs,
              i |-> 1, status |-> "running", jobs |-> <<>>, finished |-> <<>>,
              log |-> <<>>, found |-> out]
    IN  IF parallel THEN [run |-> filter_groups_submit(r), out |-> out]
        ELSE filter_groups_sequential(r, out)

\* Filter.filter_groups(out_h5, group_types, parallel, **kwargs): out_h5 is
\* opened in mode 'a'.
filter_groups(gts, parallel, kwargs) ==
    /\ ~Running
    /\ \E res \in {enter("filter_groups", gts, parallel, kwargs, out_h5)} :
          /\ run' = <<res.run>>
          /\ out_h5' = res.out
    /\ UNCHANGED <<clean_h5, years, fit_filter_vars, poly_fit_vars>>

\* Filter.filter_all(out_h5, parallel, **kwargs): the groups are the data
\* sets of the store, and out_h5 is opened in mode 'w' (emptied).
filter_all(parallel, kwargs) ==
    /\ ~Running
    /\ \E res \in {enter("filter_all", group_types, parallel, kwargs,
                         [g \in GroupTypes |-> None])} :
          /\ run' = <<res.run>>
          /\ out_h5' = res.out
    /\ UNCHANGED <<clean_h5, years, fit_filter_vars, poly_fit_vars>>

\* A worker process ends the job of unit k of the current group.
job_finish(k) ==
    /\ Running
    /\ k \in DOMAIN run[1].jobs[run[1].i]
    /\ ~run[1].jobs[run[1].i][k].done
    /\ LET r == run[1]
           unit_df == unit_dfs(clean_h5[r.group_types[r.i]])[k]
       IN  run' = <<[r EXCEPT !.jobs[r.i][k] = run_job(r.jobs[r.i][k], unit_df),
                              !.finished = Append(r.finished, k)]>>
    /\ UNCHANGED <<clean_h5, years, out_h5, fit_filter_vars, poly_fit_vars>>

\* All jobs of the group have ended: [future.result() for future in futures]
\* raises the first exception, or the group table is built and written and
\* the call goes on to the next group.
filter_group_collect ==
    /\ Running
    /\ \A k \in DOMAIN run[1].jobs[run[1].i] : run[1].jobs[run[1].i][k].done
    /\ LET r == run[1]
           g == r.group_types[r.i]
       IN  IF first_raised(r.jobs[r.i]) # 0
           THEN /\ run' = <<[r EXCEPT !.status = "raised"]>>
                /\ out_h5' = out_h5
           ELSE /\ run' = <<filter_groups_submit([r EXCEPT !.i = r.i + 1])>>
                /\ out_h5' = written(out_h5, g, group_df(r.jobs[r.i]))
    /\ UNCHANGED <<clean_h5, years, fit_filter_vars, poly_fit_vars>>

\* Filter.filter_group(group_type, parallel=False, **kwargs) called on its
\* own, on a store that names any group types.
filter_group(group_type, kwargs) ==
    /\ ~Running
    /\ \E res \in {filter_group_sequential(group_type, clean_h5[group_type], years, kwargs)} :
          run' = <<[op |-> "filter_group", group_type |-> group_type, kwargs |-> kwargs,
                    status |-> IF res.raised THEN "raised" ELSE "returned",
                    jobs |-> <<res.jobs>>, log |-> res.log, group_df |-> res.group_df]>>
    /\ UNCHANGED <<clean_h5, years, out_h5, fit_filter_vars, poly_fit_vars>>

\* ------------------------------------------ ProcedureAnalysis._raw_stats
\* raw_df[unit_id]: the unit's table; KeyError when the group holds no such
\* unit.
has_unit(raw_df, unit_id) == \E k \in DOMAIN raw_df : raw_df[k].unit_id = unit_id
get_unit(raw_df, unit_id) == raw_df[CHOOSE k \in DOMAIN raw_df : raw_df[k].unit_id = unit_id]

\* unit_df['load'].max(), unit_df.loc[load > 0, 'load'].sum() and
\* (unit_df['load'] > 0).sum(): missing loads are skipped.
present_loads(unit_df) ==
    {k \in DOMAIN unit_df.rows : unit_df.rows[k].load # None}
raw_cf(unit_df) ==
    IF present_loads(unit_df) = {} THEN None
    ELSE <<MaxOf({unit_df.rows[k].load[1] : k \in present_loads(unit_df)})>>
positive_loads(unit_df) ==
    [k \in DOMAIN unit_df.rows |->
        IF unit_df.rows[k].load # None /\ unit_df.rows[k].load[1] > 0
        THEN unit_df.rows[k].load[1] ELSE 0]
raw_gen(unit_df) == SumSeq(positive_loads(unit_df))
non_zero(unit_df) == Cardinality({k \in DOMAIN unit_df.rows : positive_loads(unit_df)[k] > 0})

\* stats[key] += value, NaN taking over the sum.
plus(cell, value) == IF cell = None \/ value = None THEN None ELSE <<cell[1] + value[1]>>

\* The stats _raw_stats starts from.
zero_stats ==
    [raw_units |-> <<0>>, raw_cf |-> <<0>>, raw_gen |-> <<0>>, total_points |-> <<0>>,
     non_zero_points |-> <<0>>]

\* logger.debug('- {} is not present in Raw CEMS data'.format(unit_id))
log_absent(unit_id) ==
    [level |-> "debug", msg |-> "is not present in Raw CEMS data", about |-> unit_id]

\* _raw_stats(raw_df, unit_ids, group_stats, unit_stats) from unit_ids[k] on.
RECURSIVE raw_stats_from(_, _, _, _, _, _)
raw_stats_from(k, raw_df, unit_ids, group_stats, unit_stats, log) ==
    IF k > Len(unit_ids)
    THEN [group_stats |-> group_stats, unit_stats |-> unit_stats, log |-> log]
    ELSE LET fetching == Append(log, [level |-> "debug", msg |-> "-- Extracting raw stats",
                                      about |-> <<>>])
         IN  IF ~has_unit(raw_df, unit_ids[k])
             THEN raw_stats_from(k + 1, raw_df, unit_ids, group_stats, unit_stats,
                                 Append(fetching, log_absent(unit_ids[k])))
             ELSE LET unit_df == get_unit(raw_df, unit_ids[k])
                      add(stats, counted) ==
                          [key \in DOMAIN stats |->
                              CASE key = "raw_units" ->
                                     IF counted THEN plus(stats[key], <<1>>) ELSE stats[key]
                                [] key = "raw_cf" -> plus(stats[key], raw_cf(unit_df))
                                [] key = "raw_gen" -> plus(stats[key], <<raw_gen(unit_df)>>)
                                [] key = "total_points" ->
                                     plus(stats[key], <<Len(unit_df.rows)>>)
                                [] key = "non_zero_points" ->
                                     plus(stats[key], <<non_zero(unit_df)>>)]
                  IN  raw_stats_from(k + 1, raw_df, unit_ids, add(group_stats, TRUE),
                                     add(unit_stats, FALSE), fetching)

_raw_stats(group_type, unit_ids) ==
    /\ ~Running
    /\ \E res \in {raw_stats_from(1, clean_h5[group_type], unit_ids, zero_stats,
                                  zero_stats, <<>>)} :
          run' = <<[op |-> "_raw_stats", group_type |-> group_type, unit_ids |-> unit_ids,
                    status |-> "returned", group_stats |-> res.group_stats,
                    unit_stats |-> res.unit_stats, log |-> res.log]>>
    /\ UNCHANGED <<clean_h5, years, out_h5, fit_filter_vars, poly_fit_vars>>

\* -------------------------------------------------------------- Filter spec
\* The unit ids a CT group may hold; as strings "10" sorts before "2".
UnitIds == {<<"1">>, <<"1", "0">>, <<"2">>}

\* A unit's table in the pre-cleaned store, its points not in time order:
\* sound, or with a missing load.
clean_unit(unit_id, sound) ==
    [unit_id |-> unit_id,
     rows |-> IF sound THEN <<[time |-> 2, load |-> <<5>>], [time |-> 1, load |-> <<0>>]>>
                       ELSE <<[time |-> 2, load |-> None], [time |-> 1, load |-> <<3>>]>>]

\* Filter(clean_h5, years): the CT group holds up to MaxUnits units of
\* distinct ids in any order, each sound or not; the CC group one sound unit.
InitFilter ==
    /\ \E n \in 1..MaxUnits : \E ids \in [1..n -> UnitIds] : \E sound \in [1..n -> BOOLEAN] :
          /\ \A a \in 1..n : \A b \in 1..n : a # b => ids[a] # ids[b]
          /\ clean_h5 = [g \in GroupTypes |->
                            IF ContainsCC(g) THEN <<clean_unit(<<"7">>, TRUE)>>
                            ELSE [k \in 1..n |-> clean_unit(ids[k], sound[k])]]
    /\ years \in 1..MaxYears
    /\ out_h5 = [g \in GroupTypes |-> None]
    /\ run = None
    /\ hr_fits = None /\ out_fits = None /\ fitted = None /\ call = None
    /\ h5 = None /\ order = DefaultOrder /\ fit_call = None /\ fit_files = None

filter_groups_call ==
    \E gts \in {<<"CT (NG)">>, <<"CC (NG)", "CT (NG)">>, <<"CT (NG)", "CC (NG)">>} :
        \E parallel \in BOOLEAN : \E kwargs \in {<<>>, [threshold |-> 1]} :
            filter_groups(gts, parallel, kwargs)

filter_all_call == \E parallel \in BOOLEAN : filter_all(parallel, <<>>)

job_finish_step == \E k \in 1..MaxUnits : job_finish(k)

raw_stats_call ==
    \E unit_ids \in {<<<<"1">>, <<"2">>>>, <<<<"2">>, <<"1", "0">>, <<"1">>>>} :
        _raw_stats("CT (NG)", unit_ids)

NextFilter ==
    \/ filter_groups_call
    \/ filter_all_call
    \/ job_finish_step
    \/ filter_group_collect
    \/ raw_stats_call

SpecFilter == InitFilter /\ [][NextFilter]_vars

\* The group types of a store with more unit types than CC and CT.
StoreTypes == {"CC (NG)", "CT (NG)", "Boiler (Coal)", "ICE (NG)", "IGCC (Coal)", "CC"}

\* Filter(clean_h5, years) on such a store: every group holds the same
\* units, up to MaxUnits of distinct ids, each sound or not.
InitGroup ==
    /\ \E n \in 1..MaxUnits : \E ids \in [1..n -> UnitIds] : \E sound \in [1..n -> BOOLEAN] :
          /\ \A a \in 1..n : \A b \in 1..n : a # b => ids[a] # ids[b]
          /\ clean_h5 = [g \in StoreTypes |-> [k \in 1..n |-> clean_unit(ids[k], sound[k])]]
    /\ years \in 1..MaxYears
    /\ out_h5 = None
    /\ run = None
    /\ hr_fits = None /\ out_fits = None /\ fitted = None /\ call = None
    /\ h5 = None /\ order = DefaultOrder /\ fit_call = None /\ fit_files = None

filter_group_call ==
    \E g \in StoreTypes : \E kwargs \in {<<>>, [threshold |-> 1]} : filter_group(g, kwargs)

NextGroup == filter_group_call

SpecGroup == InitGroup /\ [][NextGroup]_vars

\* ------------------------------------------------------ Filter properties
fr == run[1]
FilterCall == run # None /\ fr.op \in {"filter_groups", "filter_all"}

\* The jobs of the call, all groups together.
Jobs == {fr.jobs[n][k] : <<n, k>> \in {nk \in (DOMAIN fr.jobs) \X (1..MaxUnits) :
                                          nk[2] \in DOMAIN fr.jobs[nk[1]]}}

\* Positions in the log of the records with a given message.
LogAt(msg) == {a \in DOMAIN fr.log : fr.log[a].msg = msg}

\* C17: filter_group derives min_samples = floor(years * 8760 / 1000) and
\* threshold = floor(years * 8760 / 100) once per group, before any unit of
\* the group is filtered, and hands exactly these to every unit's filter
\* call; for years = 1 they are 8 and 87.
C17_JobParameters ==
    FilterCall =>
        /\ \A j \in Jobs :
              /\ j.min_samples = (years * 8760) \div 1000
              /\ j.threshold = (years * 8760) \div 100
              /\ years = 1 => (j.min_samples = 8 /\ j.threshold = 87)
        /\ Cardinality(LogAt("Using min_samples")) = Len(fr.jobs)
        /\ Cardinality(LogAt("Skipping units with < points")) = Len(fr.jobs)
        /\ \A a \in LogAt("Using min_samples") :
              fr.log[a].about = <<(years * 8760) \div 1000>>
        /\ \A a \in LogAt("Skipping units with < points") :
              fr.log[a].about = <<(years * 8760) \div 100>>
        /\ \A n \in DOMAIN fr.jobs :
              \* the n-th derivation precedes the units of the n-th group
              Cardinality({u \in LogAt("- Filtering unit") :
                  /\ Cardinality({a \in LogAt("Using min_samples") : a < u}) = n
                  /\ Cardinality({a \in LogAt("Skipping units with < points") : a < u}) = n})
                  >= Len(fr.jobs[n])
        /\ \A u \in LogAt("- Filtering unit") :
              \E a \in LogAt("Skipping units with < points") : a < u

\* C17 witness: one year of data, and both jobs of a group have run with
\* min_samples 8 and threshold 87.
C17_Witness ==
    /\ FilterCall /\ years = 1
    /\ \E n \in DOMAIN fr.jobs :
          /\ Len(fr.jobs[n]) = 2
          /\ \A k \in DOMAIN fr.jobs[n] :
                fr.jobs[n][k].done /\ fr.jobs[n][k].min_samples = 8
                                   /\ fr.jobs[n][k].threshold = 87

\* A table is sorted by (unit_id, time).
Sorted(df) == \A a \in DOMAIN df : \A b \in DOMAIN df : a < b => RowLeq(df[a], df[b])

\* The rows the jobs of the n-th group returned.
JobRows(n) == UNION {Range(fr.jobs[n][k].result[1].rows) : k \in DOMAIN fr.jobs[n]}
JobRowCount(n) ==
    SumSeq([k \in DOMAIN fr.jobs[n] |-> Len(fr.jobs[n][k].result[1].rows)])

\* The groups of the call whose table has been written.
Completed_groups == 1..(fr.i - 1)

\* C18: the output of filter_group does not depend on the order in which the
\* jobs end: the table of a group filtered in parallel is sorted by
\* (unit_id, time), holds exactly the rows the jobs returned, and is the
\* table the sequential branch returns for the same input.
C18_CompletionOrderIndependent ==
    (FilterCall /\ fr.parallel) =>
        \A n \in Completed_groups :
            LET g == fr.group_types[n]
                df == out_h5[g][1]
            IN  /\ out_h5[g] # None
                /\ Sorted(df)
                /\ Range(df) = JobRows(n) /\ Len(df) = JobRowCount(n)
                /\ df = filter_group_sequential(g, clean_h5[g], years, fr.kwargs).group_df

\* C18 witness: the two jobs of the last group ended in the reverse of the
\* order of submission, the store yields the units out of order, and the
\* table is written.
C18_Witness ==
    /\ FilterCall /\ fr.parallel /\ fr.status = "returned"
    /\ fr.finished = <<2, 1>>
    /\ LET g == fr.group_types[Len(fr.group_types)]
       IN  /\ out_h5[g] # None
           /\ StrLess(clean_h5[g][2].unit_id, clean_h5[g][1].unit_id)
           /\ Len(out_h5[g][1]) > 2

\* The filter raises on this unit: one of its loads is missing.
UnitRaises(unit_df) == \E k \in DOMAIN unit_df.rows : unit_df.rows[k].load = None
GroupFails(g) == \E k \in DOMAIN clean_h5[g] : UnitRaises(clean_h5[g][k])

\* The number of rows the store holds for a group.
GroupRowCount(g) == SumSeq([k \in DOMAIN clean_h5[g] |-> Len(clean_h5[g][k].rows)])

\* C19: a unit job that raises inside filter_group ends the call with that
\* error and nothing is written for its group, neither a partial table nor a
\* complete one: a group's table in the destination store is either the
\* complete table of this call or what the store held when the call opened
\* it.
C19_FailFast ==
    FilterCall =>
        /\ \A n \in DOMAIN fr.group_types :
              LET g == fr.group_types[n]
              IN  /\ n < fr.i =>
                        /\ ~GroupFails(g)
                        /\ out_h5[g] # None
                        /\ Len(out_h5[g][1]) = GroupRowCount(g)
                  /\ n >= fr.i => out_h5[g] = fr.found[g]
                  /\ (n = fr.i /\ GroupFails(g) /\ fr.status # "running") =>
                        fr.status = "raised"
        /\ \A g \in GroupTypes \ Range(fr.group_types) : out_h5[g] = fr.found[g]
        /\ fr.status = "returned" =>
              /\ fr.i = Len(fr.group_types) + 1
              /\ \A g \in Range(fr.group_types) : ~GroupFails(g)

\* C19 witness: a parallel call wrote its first group and raised at the
\* second, one of whose jobs had returned its rows: none of them is in the
\* destination store.
C19_Witness ==
    /\ FilterCall /\ fr.parallel /\ fr.status = "raised" /\ fr.i = 2
    /\ out_h5[fr.group_types[1]] # None
    /\ GroupFails(fr.group_types[2])
    /\ \E k \in DOMAIN fr.jobs[2] :
          /\ fr.jobs[2][k].done /\ ~fr.jobs[2][k].result[1].raised
          /\ fr.jobs[2][k].result[1].rows # <<>>
    /\ out_h5[fr.group_types[2]] = None

\* The units a group is expected to hold, and those the store holds.
ExpectedUnits(g) == IF ContainsCC(g) THEN {<<"7">>} ELSE UnitIds
PresentUnits(g) == {clean_h5[g][k].unit_id : k \in DOMAIN clean_h5[g]}
Warned(log, unit_id) ==
    \E a \in DOMAIN log : log[a].level = "warning" /\ log[a].about = unit_id

\* C20 as stated: a unit that is expected and absent from the store is
\* skipped with a logged warning, no error, and the rows of every other unit
\* of the group are produced.
C20_AbsentUnitWarned ==
    /\ FilterCall =>
          \A n \in Completed_groups :
              \A id \in ExpectedUnits(fr.group_types[n]) \ PresentUnits(fr.group_types[n]) :
                  Warned(fr.log, id)
    /\ (run # None /\ fr.op = "_raw_stats") =>
          /\ fr.status = "returned"
          /\ \A k \in DOMAIN fr.unit_ids :
                ~has_unit(clean_h5[fr.group_type], fr.unit_ids[k]) =>
                    Warned(fr.log, fr.unit_ids[k])

\* The units of a list of ids that the group holds.
PresentOf(unit_ids, g) == {k \in DOMAIN unit_ids : unit_ids[k] \in PresentUnits(g)}

\* C20 as amended: an absent unit is skipped and is not fatal, and no
\* warning is logged.  filter_group builds its jobs from the units the store
\* holds: an absent unit gets no job and no log record, and the table holds
\* the rows of every unit present.  _raw_stats logs a debug record for each
\* absent unit of its list, returns, and its statistics count the units
\* present.
C20_AbsentUnitSkipped ==
    /\ FilterCall =>
          /\ \A a \in DOMAIN fr.log : fr.log[a].level # "warning"
          /\ \A a \in LogAt("- Filtering unit") :
                \E g \in Range(fr.group_types) : fr.log[a].about \in PresentUnits(g)
          /\ \A n \in DOMAIN fr.jobs :
                /\ Len(fr.jobs[n]) <= Len(clean_h5[fr.group_types[n]])
                /\ \A k \in DOMAIN fr.jobs[n] :
                      fr.jobs[n][k].unit_id = clean_h5[fr.group_types[n]][k].unit_id
          /\ \A n \in Completed_groups :
                LET g == fr.group_types[n]
                IN  /\ Len(fr.jobs[n]) = Len(clean_h5[g])
                    /\ out_h5[g] # None
                    /\ {out_h5[g][1][a].unit_id : a \in DOMAIN out_h5[g][1]} = PresentUnits(g)
          /\ fr.status = "raised" =>
                GroupFails(fr.group_types[fr.i]) \/ "threshold" \in DOMAIN fr.kwargs
    /\ (run # None /\ fr.op = "_raw_stats") =>
          /\ fr.status = "returned"
          /\ \A a \in DOMAIN fr.log : fr.log[a].level # "warning"
          /\ \A k \in DOMAIN fr.unit_ids :
                fr.unit_ids[k] \notin PresentUnits(fr.group_type) =>
                    \E a \in DOMAIN fr.log :
                        fr.log[a] = [level |-> "debug",
                                     msg |-> "is not present in Raw CEMS data",
                                     about |-> fr.unit_ids[k]]
          /\ fr.group_stats.raw_units =
                <<Cardinality(PresentOf(fr.unit_ids, fr.group_type))>>
          /\ fr.group_stats.total_points =
                <<SumSeq([k \in DOMAIN fr.unit_ids |->
                            IF k \in PresentOf(fr.unit_ids, fr.group_type)
                            THEN Len(get_unit(clean_h5[fr.group_type], fr.unit_ids[k]).rows)
                            ELSE 0])>>

\* C20 witness: the group lacks one of the units expected, the call returned
\* and the table holds the rows of the two units present.
C20_Witness ==
    /\ FilterCall /\ fr.status = "returned"
    /\ LET g == fr.group_types[Len(fr.group_types)]
       IN  /\ ExpectedUnits(g) \ PresentUnits(g) # {}
           /\ Cardinality(PresentUnits(g)) = 2
           /\ out_h5[g] # None
           /\ {out_h5[g][1][a].unit_id : a \in DOMAIN out_h5[g][1]} = PresentUnits(g)

\* ------------------------------------------- PolyFit properties, continued
\* Order of fit ids (strings): '-' sorts before the digits.
CharOrd(ch) == IF ch = "-" THEN -1 ELSE CharRank(ch)
RECURSIVE IdLess(_, _)
IdLess(a, b) ==
    IF b = <<>> THEN FALSE
    ELSE IF a = <<>> THEN TRUE
    ELSE IF Head(a) = Head(b) THEN IdLess(Tail(a), Tail(b))
    ELSE CharOrd(Head(a)) < CharOrd(Head(b))

\* C22: whatever the order in which the store yields the units of a group,
\* the table fit_group returns, and the one it writes, has its rows in
\* ascending order of unit_id.
C22_FitTableSorted ==
    (FitCalled /\ fc.op = "fit_group" /\ ~fc.raised) =>
        /\ \A a \in DOMAIN fc.group_fits : \A b \in DOMAIN fc.group_fits :
              a < b => IdLess(fc.group_fits[a].unit_id, fc.group_fits[b].unit_id)
        /\ fc.out_file # None =>
              LET rows == fit_files[fc.out_file][1].rows
              IN  \A a \in DOMAIN rows : \A b \in DOMAIN rows :
                      a < b => IdLess(rows[a].unit_id, rows[b].unit_id)

\* ====================================================== FitFilter and Filter
\* The program holds a FitFilter or a Filter: the behaviours of either.
InitBoth == Init \/ InitFilter

NextBoth ==
    \/ hr_fits # None /\ filter_in_place
    \/ hr_fits # None /\ filter_to_out_dir
    \/ clean_h5 # None /\ filter_groups_call
    \/ clean_h5 # None /\ filter_all_call
    \/ clean_h5 # None /\ job_finish_step
    \/ clean_h5 # None /\ filter_group_collect
    \/ clean_h5 # None /\ raw_stats_call

SpecBoth == InitBoth /\ [][NextBoth]_vars

\* ------------------------------------------------------- group isolation
\* Other contents a group of the fit store, and of the pre-cleaned store,
\* may have.
FitTables(g) ==
    IF ContainsCC(g) THEN {CC_table(<<>>, g), CC_table(<<1, 2, 1, 3>>, g)}
    ELSE {CT_table(<<>>, g), CT_table(<<1, 1, 2, 3>>, g)}
CleanGroups(g) ==
    IF ContainsCC(g)
    THEN {<<clean_unit(<<"7">>, TRUE)>>, <<clean_unit(<<"7">>, FALSE)>>}
    ELSE {<<clean_unit(<<"1">>, TRUE)>>,
          <<clean_unit(<<"2">>, FALSE), clean_unit(<<"1">>, TRUE)>>}

\* The stores that agree with a store on group g and hold other contents in
\* another group.
FitAlternatives(store, g) ==
    UNION {{[store EXCEPT ![h] = t] : t \in FitTables(h)} : h \in GroupTypes \ {g}}
CleanAlternatives(store, g) ==
    UNION {{[store EXCEPT ![h] = t] : t \in CleanGroups(h)} : h \in GroupTypes \ {g}}

\* A run that raised at position `raised` (0: nowhere) got to position n.
GotTo(raised, n) == raised = 0 \/ raised >= n

\* FitFilter.filter: the last call gave group g what the same
\* call gives it on a store that differs in another group; with `reached`,
\* only for the groups both runs got to.
FitIsolated(reached) ==
    Called =>
        \A g \in GroupTypes : \A alt \in FitAlternatives(last.hr_fits, g) :
            \A other \in {filter_groups_from(1, alt, last.out_fits, last.out_dir,
                                             last.min_units, last.kwargs)} :
                (reached => (GotTo(last.raised, Position(g))
                             /\ GotTo(other.raised, Position(g)))) =>
                    /\ hr_fits[g] = other.hr_fits[g]
                    /\ out_fits[g] = other.out_fits[g]

\* min_samples and threshold of the jobs of the n-th group of a run.
JobParameters(jobs, n) ==
    IF n \in DOMAIN jobs THEN {<<jobs[n][k].min_samples, jobs[n][k].threshold>> :
                                  k \in DOMAIN jobs[n]}
    ELSE {}

\* Filter.filter_groups / filter_all: the call that ended gave group g the
\* table and the job parameters the same call gives it on a store that
\* differs in another group; with `reached`, only for the groups both runs
\* got to.
FilterIsolated(reached) ==
    (FilterCall /\ fr.status # "running") =>
        \A n \in DOMAIN fr.group_types : \A alt \in CleanAlternatives(clean_h5, fr.group_types[n]) :
            \A other \in {filter_groups_on(alt, [fr EXCEPT !.i = 1, !.status = "running",
                                                           !.jobs = <<>>, !.finished = <<>>,
                                                           !.log = <<>>], fr.found)} :
                (reached => (fr.i >= n /\ other.run.i >= n)) =>
                    /\ out_h5[fr.group_types[n]] = other.out[fr.group_types[n]]
                    /\ JobParameters(fr.jobs, n) = JobParameters(other.run.jobs, n)

InputPairs(c) == [j \in DOMAIN c.load |-> <<c.load[j], c.heat_rate[j]>>]
Occurrences(sq, v) == Cardinality({j \in DOMAIN sq : sq[j] = v})

\* The labels whose points go into the i-th row of a unit.
RowLabels(unit_df, i) ==
    IF Len(RetainedLabels(unit_df)) > 1 THEN {RetainedLabels(unit_df)[i]} ELSE 0..9

\* The points of a unit with a label among `labels`, as pairs.
PointsOf(unit_df, labels) ==
    SelectSeq([j \in DOMAIN unit_df.rows |->
                  <<unit_df.rows[j].load, unit_df.rows[j].heat_rate, unit_df.rows[j].cluster>>],
              LAMBDA p : p[3] \in labels)

\* The unit with its points in another order.
RowOrders(n) == {f \in [1..n -> 1..n] : \A a \in 1..n : \E b \in 1..n : f[b] = a}
Reordered(unit_df) ==
    {[unit_df EXCEPT !.rows = [j \in DOMAIN unit_df.rows |-> unit_df.rows[f[j]]]] :
        f \in RowOrders(Len(unit_df.rows))}

\* C25: the input of extract_fit for a row of a unit is exactly the unit's
\* points with the row's label (all points with a label >= 0 when the unit
\* has one row), sorted by (load, heat_rate); no point with label -1 is in
\* an input, every point with a label >= 0 is in exactly one, and the rows
\* fit_unit returns are the same for every order of the points in the unit
\* table.
C25_FitInput ==
    \A u \in FitUnits :
        /\ \A i \in DOMAIN u.res.calls :
              LET pairs == InputPairs(u.res.calls[i])
                  points == PointsOf(u.unit_df, RowLabels(u.unit_df, i))
              IN  /\ Len(u.res.calls[i].load) = Len(u.res.calls[i].heat_rate)
                  /\ Len(pairs) = Len(points)
                  /\ \A j \in DOMAIN pairs :
                        Occurrences(pairs, pairs[j])
                            = Occurrences([k \in DOMAIN points |-> <<points[k][1], points[k][2]>>],
                                          pairs[j])
                  /\ \A j \in DOMAIN pairs : \A k \in DOMAIN pairs :
                        j < k => \/ pairs[j][1] < pairs[k][1]
                                 \/ pairs[j][1] = pairs[k][1] /\ pairs[j][2] <= pairs[k][2]
        /\ ~u.res.raised =>
              SumSeq([i \in DOMAIN u.res.calls |-> Len(u.res.calls[i].load)])
                  = Len(PointsOf(u.unit_df, 0..9))
        /\ \A other \in Reordered(u.unit_df) :
              \A res \in {fit_unit(other, fc.order, fc.points)} :
                  /\ res.raised = u.res.raised
                  /\ res.unit_fit = u.res.unit_fit

\* C25 witness: a unit whose table holds a noise point and two points of one
\* label out of (load, heat_rate) order was fitted from the two points in
\* order.
C25_Witness ==
    \E u \in FitUnits :
        /\ ~u.res.raised
        /\ Len(u.unit_df.rows) = 3
        /\ \E j \in 1..3 : u.unit_df.rows[j].cluster = -1
        /\ \E j \in 1..2 : \E k \in (j + 1)..3 :
              /\ u.unit_df.rows[j].cluster = 0 /\ u.unit_df.rows[k].cluster = 0
              /\ u.unit_df.rows[j].load = u.unit_df.rows[k].load
              /\ u.unit_df.rows[j].heat_rate > u.unit_df.rows[k].heat_rate
        /\ Len(u.res.calls) = 1
        /\ u.res.calls[1].load = <<2, 2>> /\ u.res.calls[1].heat_rate = <<7, 8>>

\* ------------------------------------------------- clustering strategy
\* A string holds 'CC' somewhere.
HoldsCC(str) == \E i \in 1..(Len(str) - 1) : str[i] = "C" /\ str[i + 1] = "C"

\* The unit-type part of a group type: what stands before ' ('.
UnitTypePart(group_type) ==
    LET str == Chars(group_type)
        cut == {i \in 1..(Len(str) - 1) : str[i] = " " /\ str[i + 1] = "("}
    IN  IF cut = {} THEN str ELSE SubSeq(str, 1, MinOf(cut) - 1)

GroupCall == run # None /\ fr.op = "filter_group"

\* C24 as stated: a group type whose unit-type part contains 'CC' is
\* filtered with ClusterCC.filter, every other with SingleCluster.filter,
\* the same filter for all units of the group.
C24_StrategyByContainsCC ==
    GroupCall =>
        \A k \in DOMAIN fr.jobs[1] :
            fr.jobs[1][k].filter = IF HoldsCC(UnitTypePart(fr.group_type))
                                   THEN "ClusterCC.filter" ELSE "SingleCluster.filter"

\* C24 as amended: a group type whose unit-type part is 'CC' is filtered
\* with ClusterCC.filter, every other with SingleCluster.filter, the same
\* filter for all units of the group.
C24_StrategyByUnitType ==
    GroupCall =>
        \A k \in DOMAIN fr.jobs[1] :
            fr.jobs[1][k].filter = IF UnitTypePart(fr.group_type) = <<"C", "C">>
                                   THEN "ClusterCC.filter" ELSE "SingleCluster.filter"

\* C24 witness: two units of a group whose unit type holds 'CC' and is not
\* 'CC' were filtered with SingleCluster.filter.
C24_Witness ==
    /\ GroupCall /\ fr.status = "returned"
    /\ HoldsCC(UnitTypePart(fr.group_type)) /\ UnitTypePart(fr.group_type) # <<"C", "C">>
    /\ Len(fr.jobs[1]) = 2
    /\ \A k \in DOMAIN fr.jobs[1] : fr.jobs[1][k].filter = "SingleCluster.filter"

\* ------------------------------------------------------- CC invalidation
\* The cc_ids of a CC table and the rows sharing one.
CCIds(df) == {PrefixBefore(df[i]["unit_id"], {"-"}) : i \in DOMAIN df}

\* C26: CC invalidation is all-or-nothing per CC unit: in the table
\* _filer_CCs returns, the rows of a failed cc_id all have their coefficient
\* and curve columns missing and the rows of any other cc_id are all as they
\* were; the table has the input's unit_id values in place and no cc_id
\* column.
C26_AllOrNothingPerCC ==
    \A g \in CC :
        WasFiltered(g) =>
            /\ Len(Post(g)) = Len(Pre(g))
            /\ \A i \in DOMAIN Pre(g) :
                  /\ "cc_id" \notin DOMAIN Post(g)[i]
                  /\ DOMAIN Post(g)[i] = DOMAIN Pre(g)[i]
                  /\ Post(g)[i]["unit_id"] = Pre(g)[i]["unit_id"]
            /\ \A p \in CCIds(Pre(g)) :
                  \/ \A i \in Members(Pre(g), p) :
                        \A c \in Range(CoefCols) \cup Range(HeatRateCols) \cup InteriorLoadCols :
                            Post(g)[i][c] = None
                  \/ \A i \in Members(Pre(g), p) : Post(g)[i] = Pre(g)[i]
            /\ \A p \in CCIds(Pre(g)) :
                  IF p \in FailedCCs(Pre(g), Multiplier, CutOff)
                  THEN \A i \in Members(Pre(g), p) : MarkedFailed(Pre(g)[i], Post(g)[i])
                  ELSE \A i \in Members(Pre(g), p) : Post(g)[i] = Pre(g)[i]

\* C26 witness: a CC call failed the two fitted rows of one cc_id together,
\* whose minima differ, and left a fitted row of another cc_id as it was.
C26_Witness ==
    \E g \in CC :
        /\ WasFiltered(g)
        /\ \E p \in CCIds(Pre(g)) :
              /\ Cardinality(Members(Pre(g), p)) = 2
              /\ \A i \in Members(Pre(g), p) :
                    Pre(g)[i]["a0"] # None /\ Post(g)[i]["a0"] = None
              /\ \E i \in Members(Pre(g), p) : \E j \in Members(Pre(g), p) :
                    /\ i \in Defined(Pre(g)) /\ j \in Defined(Pre(g))
                    /\ Minima(Pre(g))[i] < Minima(Pre(g))[j]
              /\ \E q \in CCIds(Pre(g)) \ {p} :
                    \E i \in Members(Pre(g), q) :
                        Pre(g)[i]["a0"] # None /\ Post(g)[i] = Pre(g)[i]

====
